---- MODULE Spec2Model ----
(***************************************************************************)
(* A model of the quantitative core of the Cetus CLMM liquidity simulator: *)
(* tick / sqrt-price conversion (utils/tickMath.ts), position amounts,     *)
(* impermanent loss, APY and rebalance advice (utils/clmmMath.ts).         *)
(*                                                                         *)
(* The functions are pure.  Each specification below draws the arguments   *)
(* of one call from a bounded set (Init) and applies the function (its     *)
(* action), leaving the arguments in `in` and the returned value in `out`. *)
(*                                                                         *)
(* Numbers.  TLC's integers are 32 bits wide, the program's are not:       *)
(*   - a BN (bn.js) is an arbitrary-precision natural, modelled as a       *)
(*     little-endian sequence of limbs in base 2^15 (BAdd, BMul, ...);     *)
(*   - a JavaScript number is an IEEE-754 binary64, modelled as a record   *)
(*     with a sign, a 53-bit mantissa (a limb sequence) and an exponent,   *)
(*     every operation rounding to nearest, ties to even (FAdd, FMul, ...).*)
(*     The exponent is not bounded: overflow to Infinity and gradual       *)
(*     underflow do not happen at the magnitudes the specifications draw.  *)
(***************************************************************************)
EXTENDS Integers, Sequences, FiniteSets, TLC

VARIABLES pc, in, out

vars == <<pc, in, out>>



----------------------------------------------------------------------------
(* Arbitrary-precision naturals (bn.js BN, and the mantissas of numbers).  *)

Base == 2^15

\* TLC evaluates an operator's argument when the operator first uses it,
\* and a LET definition at each of its uses.  A value used more than once is
\* therefore passed as an argument (hence the many small operators), and
\* Strict(v, e) is e with v evaluated first, so that a long chain of calls
\* is evaluated step by step and not as one deeply nested expression.
Strict(v, e) == IF v = v THEN e ELSE e

Max(a, b) == IF a >= b THEN a ELSE b
Min(a, b) == IF a <= b THEN a ELSE b
Abs(x) == IF x < 0 THEN -x ELSE x

Pow2(k) == 2 ^ k

\* The limbs of a natural are found without recursion on the limbs (BNorm,
\* BCmp), and the carries of a sum by looking back to the limb that
\* generates them (BCarry, BBorrow), so that the depth of an evaluation
\* does not grow with the length of the numbers.

\* The index of the most significant non-zero limb of a, 0 when there is none.
BTop(a) ==
  IF \A i \in 1..Len(a) : a[i] = 0 THEN 0
  ELSE CHOOSE i \in 1..Len(a) : a[i] # 0 /\ \A k \in (i + 1)..Len(a) : a[k] = 0

\* a without its most significant zero limbs.
BNorm(a) ==
  IF a = <<>> THEN a
  ELSE IF a[Len(a)] # 0 THEN a
  ELSE SubSeq(a, 1, BTop(a))

BLimb(a, i) == IF i <= Len(a) THEN a[i] ELSE 0

BZero == <<>>
BOne == <<1>>
BIsZero(a) == a = <<>>

RECURSIVE BFromNat(_)
BFromNat(n) == IF n = 0 THEN <<>> ELSE <<n % Base>> \o BFromNat(n \div Base)

\* The value of a bignum known to be below 2^30.
BToNat(a) == BLimb(a, 1) + Base * BLimb(a, 2)

BCmpAt(a, b, i) == IF a[i] < b[i] THEN -1 ELSE 1

\* -1, 0 or 1 as a < b, a = b, a > b (both normalised): the most significant
\* limb in which they differ decides.
BCmp(a, b) ==
  IF Len(a) < Len(b) THEN -1
  ELSE IF Len(a) > Len(b) THEN 1
  ELSE IF a = b THEN 0
  ELSE BCmpAt(a, b, CHOOSE i \in 1..Len(a) :
                      a[i] # b[i] /\ \A k \in (i + 1)..Len(a) : a[k] = b[k])

BLt(a, b) == BCmp(a, b) < 0
BLe(a, b) == BCmp(a, b) <= 0

\* Whether the limbs 1..i of a + b carry into limb i + 1: the sum of some
\* limb overflows and all above it are full.
BCarry(a, b, i) ==
  \E j \in 1..i :
    /\ BLimb(a, j) + BLimb(b, j) >= Base
    /\ \A k \in (j + 1)..i : BLimb(a, k) + BLimb(b, k) = Base - 1

BAdd(a, b) ==
  BNorm([i \in 1..(Max(Len(a), Len(b)) + 1) |->
           (BLimb(a, i) + BLimb(b, i) + (IF BCarry(a, b, i - 1) THEN 1 ELSE 0)) % Base])

\* Whether the limbs 1..i of a - b borrow from limb i + 1: the difference of
\* some limb is negative and none above it is positive.
BBorrow(a, b, i) ==
  \E j \in 1..i :
    /\ a[j] < BLimb(b, j)
    /\ \A k \in (j + 1)..i : a[k] <= BLimb(b, k)

\* a - b for a >= b.
BSub(a, b) ==
  BNorm([i \in 1..Len(a) |->
           (a[i] - BLimb(b, i) + Base - (IF BBorrow(a, b, i - 1) THEN 1 ELSE 0)) % Base])

\* The low limbs of the products a[i] * d and their high limbs, one place up.
BMulSmallAt(a, d) ==
  BAdd([i \in 1..Len(a) |-> (a[i] * d) % Base],
       <<0>> \o [i \in 1..Len(a) |-> (a[i] * d) \div Base])

\* a * d for a limb d (0 <= d < Base).
BMulSmall(a, d) == IF d = 0 \/ a = <<>> THEN <<>> ELSE BMulSmallAt(a, d)

\* The sum over i in lo..hi of the low limbs (part = 0) or the high limbs
\* (part = 1) of the products a[i] * b[k + 1 - i], which belong to limb k of
\* a * b.
RECURSIVE BColumn(_, _, _, _, _, _)
BColumn(a, b, k, lo, hi, part) ==
  IF lo > hi THEN 0
  ELSE IF lo = hi
  THEN (IF part = 0 THEN (a[lo] * b[k + 1 - lo]) % Base
        ELSE (a[lo] * b[k + 1 - lo]) \div Base)
  ELSE BColumn(a, b, k, lo, (lo + hi) \div 2, part)
       + BColumn(a, b, k, (lo + hi) \div 2 + 1, hi, part)

\* Limb k of a * b before the carries: below 2 * Len(a) * Base.
BMulColumn(a, b, k) ==
  BColumn(a, b, k, Max(1, k + 1 - Len(b)), Min(Len(a), k), 0)
  + BColumn(a, b, k - 1, Max(1, k - Len(b)), Min(Len(a), k - 1), 1)

BMulColumns(v, n) ==
  Strict(v, BAdd([k \in 1..n |-> v[k] % Base],
                 <<0>> \o [k \in 1..n |-> v[k] \div Base]))

BMulAt(a, b, n) == BMulColumns([k \in 1..n |-> BMulColumn(a, b, k)], n)

BMul(a, b) == IF a = <<>> \/ b = <<>> THEN <<>> ELSE BMulAt(a, b, Len(a) + Len(b))

Zeros(q) == [i \in 1..q |-> 0]

\* a * 2^k  (BN.shln).
BShl(a, k) ==
  IF a = <<>> THEN <<>>
  ELSE Zeros(k \div 15) \o BMulSmall(a, Pow2(k % 15))

\* floor(a / 2^k)  (BN.shrn).
BShr(a, k) ==
  LET q == k \div 15
      r == k % 15
      p == Pow2(r)
      h == Pow2(15 - r)
      n == Len(a) - q
  IN  IF n <= 0 THEN <<>>
      ELSE BNorm([i \in 1..n |->
                    (a[i + q] \div p) + (BLimb(a, i + q + 1) % p) * h])

\* The number of bits of n < 2^30.
BitLenNat(n) == CHOOSE k \in 0..30 : n < 2 ^ k /\ (k = 0 \/ n >= 2 ^ (k - 1))

\* The number of bits of a: 0 for 0, floor(log2 a) + 1 otherwise.
BBitLen(a) == IF a = <<>> THEN 0 ELSE (Len(a) - 1) * 15 + BitLenNat(a[Len(a)])

BIsOdd(a) == a # <<>> /\ a[1] % 2 = 1

\* Whether a has a 1 bit strictly below bit k (a mod 2^k # 0).
BLowBits(a, k) ==
  \E i \in 1..Min(Len(a), (k + 14) \div 15) :
    IF i * 15 <= k THEN a[i] # 0 ELSE a[i] % Pow2(k - (i - 1) * 15) # 0

\* One step of long division (Knuth's algorithm D): the quotient limb of
\* r1 / d for r1 < d * Base, where the top limb of d is at least Base / 2.
\* The estimate from the two top limbs of r1 is at most 2 too large.
BDigit(r1, d) ==
  LET m  == Len(d)
      qh == Min((BLimb(r1, m + 1) * Base + BLimb(r1, m)) \div d[m], Base - 1)
  IN  IF BLe(BMulSmall(d, qh), r1) THEN qh
      ELSE IF BLe(BMulSmall(d, qh - 1), r1) THEN qh - 1
      ELSE qh - 2

\* Long division, most significant limb of n first.  BDivLimb is the step for
\* one limb of n: r1 is the remainder so far with that limb appended, g the
\* limb of the quotient.  BDivRange divides by the limbs hi down to lo of n,
\* starting from the remainder r: the upper half of the limbs first, then
\* the lower half from the remainder the upper half leaves.
BDivOut(d, r1, g) ==
  [q |-> <<g>>, r |-> IF g = 0 THEN r1 ELSE BSub(r1, BMulSmall(d, g))]

BDivLimb(d, r1) ==
  Strict(r1, BDivOut(d, r1, IF BLt(r1, d) THEN 0 ELSE BDigit(r1, d)))

BDivJoin(up, low) == [q |-> low.q \o up.q, r |-> low.r]

RECURSIVE BDivRange(_, _, _, _, _)
BDivLower(n, d, mid, lo, up) ==
  Strict(up, BDivJoin(up, BDivRange(n, d, mid, lo, up.r)))

BDivRange(n, d, hi, lo, r) ==
  IF hi < lo THEN [q |-> <<>>, r |-> r]
  ELSE IF hi = lo THEN BDivLimb(d, BNorm(<<n[hi]>> \o r))
  ELSE BDivLower(n, d, (hi + lo) \div 2, lo,
                 BDivRange(n, d, hi, (hi + lo) \div 2 + 1, r))

BDivBack(x, sh) == [q |-> BNorm(x.q), r |-> BShr(x.r, sh)]

BDivShifted(n1, d1, sh) == BDivBack(BDivRange(n1, d1, Len(n1), 1, <<>>), sh)

\* [q |-> floor(n / d), r |-> n mod d] for d > 0  (BN.div, BN.mod): n and d
\* are shifted so that the top limb of d is at least Base / 2.
BDivMod(n, d) ==
  LET sh == 15 - BitLenNat(d[Len(d)])
  IN  BDivShifted(BShl(n, sh), BShl(d, sh), sh)

BDiv(n, d) == BDivMod(n, d).q

\* Newton's iteration for the integer square root, from x >= sqrt(n).
RECURSIVE BSqrtFrom(_, _)
BSqrtNext(n, x, y) == IF BLt(y, x) THEN BSqrtFrom(n, y) ELSE x

BSqrtFrom(n, x) == Strict(x, BSqrtNext(n, x, BShr(BAdd(x, BDiv(n, x)), 1)))

\* floor(sqrt(n)).
BSqrt(n) ==
  IF n = <<>> THEN <<>>
  ELSE BSqrtFrom(n, BShl(BOne, (BBitLen(n) + 1) \div 2))

\* A decimal literal given in groups of four digits, most significant first:
\* BDec(<<1844, 6744, 737, 955, 1616>>) is 18446744073709551616.
RECURSIVE BDecAt(_, _, _)
BDecAt(g, i, acc) ==
  IF i > Len(g) THEN acc
  ELSE BDecAt(g, i + 1, BAdd(BMulSmall(acc, 10000), BFromNat(g[i])))

BDec(g) == BDecAt(g, 1, <<>>)

----------------------------------------------------------------------------
(* JavaScript numbers: IEEE-754 binary64.  A finite number is s * m * 2^e    *)
(* with s the sign, and m either 0 (then e = 0, s = 1: the two zeros are not *)
(* told apart) or 2^52 <= m < 2^53.  +, -, *, / and Math.sqrt are correctly  *)
(* rounded, to nearest with ties to even.                                    *)

FZero == [k |-> "fin", s |-> 1, m |-> <<>>, e |-> 0]
FInf(s) == [k |-> "inf", s |-> s, m |-> <<>>, e |-> 0]
FNaN == [k |-> "nan", s |-> 1, m |-> <<>>, e |-> 0]

FIsNaN(a) == a.k = "nan"
FIsZero(a) == a.k = "fin" /\ a.m = <<>>
\* isFinite
FIsFinite(a) == a.k = "fin"

\* The number nearest to s * m * 2^e, for any natural m; `sticky` says that
\* the exact value is larger in magnitude by less than 2^e (then m has at
\* least 55 bits).
FNumber(s, m, e) == [k |-> "fin", s |-> s, m |-> m, e |-> e]

\* Ties go to the even mantissa.
FRoundEven(q, half, low) ==
  IF half /\ (low \/ BIsOdd(q)) THEN BAdd(q, BOne) ELSE q

\* A mantissa rounded up to 2^53 is 2^52 with the next exponent.
FRoundCarry(s, q1, e) ==
  IF BBitLen(q1) > 53 THEN FNumber(s, BShr(q1, 1), e + 1) ELSE FNumber(s, q1, e)

FRoundAt(s, m, e, sticky, len) ==
  IF len <= 53 THEN FNumber(s, BShl(m, 53 - len), e - (53 - len))
  ELSE FRoundCarry(s, FRoundEven(BShr(m, len - 53), BIsOdd(BShr(m, len - 54)),
                                 sticky \/ BLowBits(m, len - 54)),
                   e + len - 53)

FRound(s, m, e, sticky) ==
  IF m = <<>> THEN FZero ELSE FRoundAt(s, m, e, sticky, BBitLen(m))

FFromBig(s, m) == FRound(s, m, 0, FALSE)
FFromInt(n) == FRound(IF n < 0 THEN -1 ELSE 1, BFromNat(Abs(n)), 0, FALSE)

FNeg(a) == IF a.k = "nan" \/ FIsZero(a) THEN a ELSE [a EXCEPT !.s = -a.s]
\* Math.abs
FAbs(a) == IF a.k = "nan" THEN a ELSE [a EXCEPT !.s = 1]

\* -1, 0, 1: the sign of a (not NaN).
FSign(a) == IF FIsZero(a) THEN 0 ELSE a.s

\* The order of |a| and |b| (neither NaN): -1, 0 or 1.
FCmpMag(a, b) ==
  IF a.k = "inf" \/ b.k = "inf"
  THEN (IF a.k = b.k THEN 0 ELSE IF a.k = "inf" THEN 1 ELSE -1)
  ELSE IF a.m = <<>> \/ b.m = <<>>
  THEN (IF a.m = b.m THEN 0 ELSE IF a.m = <<>> THEN -1 ELSE 1)
  ELSE IF a.e # b.e THEN (IF a.e < b.e THEN -1 ELSE 1)
  ELSE BCmp(a.m, b.m)

\* The order of a and b (neither NaN): -1, 0 or 1.
FCmp(a, b) ==
  LET sa == FSign(a)
      sb == FSign(b)
  IN  IF sa # sb THEN (IF sa < sb THEN -1 ELSE 1)
      ELSE IF sa = 0 THEN 0
      ELSE sa * FCmpMag(a, b)

\* The comparisons of the language: every comparison with NaN is false.
FOrd(a, b) == a.k # "nan" /\ b.k # "nan"
FLt(a, b) == FOrd(a, b) /\ FCmp(a, b) < 0
FLe(a, b) == FOrd(a, b) /\ FCmp(a, b) <= 0
FGt(a, b) == FOrd(a, b) /\ FCmp(a, b) > 0
FGe(a, b) == FOrd(a, b) /\ FCmp(a, b) >= 0
FEq(a, b) == FOrd(a, b) /\ FCmp(a, b) = 0

\* x + y for finite non-zero x and y with x.e >= y.e: X and Y are the
\* mantissas at the exponent E, c their order.
FAddAligned(x, y, X, Y, E, c) ==
  FRound(IF x.s = y.s \/ c > 0 THEN x.s ELSE y.s,
         IF x.s = y.s THEN BAdd(X, Y)
         ELSE IF c >= 0 THEN BSub(X, Y) ELSE BSub(Y, X),
         E, FALSE)

FAddMantissas(x, y, X, Y, E) == FAddAligned(x, y, X, Y, E, BCmp(X, Y))

\* Beyond 60 bits the smaller operand only says "inexact".
FAddOrdered(x, y) ==
  FAddMantissas(x, y, BShl(x.m, Min(x.e - y.e, 60)),
                IF x.e - y.e > 60 THEN BOne ELSE y.m, x.e - Min(x.e - y.e, 60))

\* a + b
FAdd(a, b) ==
  IF a.k = "nan" \/ b.k = "nan" THEN FNaN
  ELSE IF a.k = "inf" \/ b.k = "inf"
  THEN (IF a.k = "inf" /\ b.k = "inf" /\ a.s # b.s THEN FNaN
        ELSE IF a.k = "inf" THEN a ELSE b)
  ELSE IF a.m = <<>> THEN b
  ELSE IF b.m = <<>> THEN a
  ELSE IF a.e >= b.e THEN FAddOrdered(a, b) ELSE FAddOrdered(b, a)

\* a - b
FSub(a, b) == FAdd(a, FNeg(b))

\* a * b
FMul(a, b) ==
  IF a.k = "nan" \/ b.k = "nan" THEN FNaN
  ELSE IF a.k = "inf" \/ b.k = "inf"
  THEN (IF FIsZero(a) \/ FIsZero(b) THEN FNaN ELSE FInf(a.s * b.s))
  ELSE IF a.m = <<>> \/ b.m = <<>> THEN FZero
  ELSE FRound(a.s * b.s, BMul(a.m, b.m), a.e + b.e, FALSE)

FDivRound(s, x, e) == FRound(s, x.q, e, x.r # <<>>)

\* a / b
FDiv(a, b) ==
  IF a.k = "nan" \/ b.k = "nan" THEN FNaN
  ELSE IF a.k = "inf" THEN (IF b.k = "inf" THEN FNaN ELSE FInf(a.s * b.s))
  ELSE IF b.k = "inf" THEN FZero
  ELSE IF b.m = <<>> THEN (IF a.m = <<>> THEN FNaN ELSE FInf(a.s))
  ELSE IF a.m = <<>> THEN FZero
  ELSE FDivRound(a.s * b.s, BDivMod(BShl(a.m, 56), b.m), a.e - b.e - 56)

FSqrtRound(M, q, e) == Strict(q, FRound(1, q, e, BMul(q, q) # M))

FSqrtOf(M, e) == Strict(M, FSqrtRound(M, BSqrt(M), e))

\* Math.sqrt
FSqrt(a) ==
  IF a.k = "nan" THEN FNaN
  ELSE IF FIsZero(a) THEN FZero
  ELSE IF a.s < 0 THEN FNaN
  ELSE IF a.k = "inf" THEN a
  ELSE IF (a.e - 54) % 2 = 0 THEN FSqrtOf(BShl(a.m, 54), (a.e - 54) \div 2)
  ELSE FSqrtOf(BShl(a.m, 55), (a.e - 55) \div 2)

\* Math.min, Math.max
FMin(a, b) ==
  IF a.k = "nan" \/ b.k = "nan" THEN FNaN
  ELSE IF FCmp(a, b) <= 0 THEN a ELSE b

FMax(a, b) ==
  IF a.k = "nan" \/ b.k = "nan" THEN FNaN
  ELSE IF FCmp(a, b) >= 0 THEN a ELSE b

FFloorOf(s, q, frac) == FFromBig(s, IF s < 0 /\ frac THEN BAdd(q, BOne) ELSE q)

\* Math.floor
FFloor(a) ==
  IF a.k # "fin" \/ a.m = <<>> \/ a.e >= 0 THEN a
  ELSE FFloorOf(a.s, BShr(a.m, -a.e), BLowBits(a.m, -a.e))

\* Math.ceil
FCeil(a) == FNeg(FFloor(FNeg(a)))

\* The integer that an integral number below 2^30 in magnitude is.
FToInt(a) ==
  IF a.m = <<>> THEN 0
  ELSE a.s * BToNat(IF a.e >= 0 THEN BShl(a.m, a.e) ELSE BShr(a.m, -a.e))

\* 2^n
FPow2(n) == [k |-> "fin", s |-> 1, m |-> BShl(BOne, 52), e |-> n - 52]

\* The decimal literal n / d for integers n and d > 0 with d a power of ten:
\* the nearest number to the quotient, as the source text denotes.
FDec(n, d) == FDiv(FFromInt(n), FFromInt(d))

\* Math.round: the nearest integer, a tie going up.
Math_roundOf(a, floor) ==
  IF FGe(FSub(a, floor), FPow2(-1)) THEN FAdd(floor, FFromInt(1)) ELSE floor

Math_round(a) == IF a.k # "fin" THEN a ELSE Math_roundOf(a, FFloor(a))

----------------------------------------------------------------------------
(* Math.pow and Math.log.  ECMA-262 leaves their accuracy to the            *)
(* implementation ("implementation-approximated"); the engines' fdlibm      *)
(* routines are within one unit in the last place.  Each is therefore the   *)
(* SET of the numbers less than one ulp away from the real result: the one  *)
(* number when the real result is a number, its two neighbours otherwise.   *)
(* The real result is computed to HPrec bits, truncated: a positive value   *)
(* m * 2^e, with x telling whether nothing was cut off.                     *)
HPrec == 105

\* The bound on the relative error of a truncated value is 2^-HSlack.
HSlack == 80

HTruncBy(m, e, x, drop) ==
  IF drop <= 0 THEN [m |-> m, e |-> e, x |-> x]
  ELSE [m |-> BShr(m, drop), e |-> e + drop, x |-> x /\ ~BLowBits(m, drop)]

HTrunc(m, e, x) == HTruncBy(m, e, x, BBitLen(m) - HPrec)

HMul(a, b) == HTrunc(BMul(a.m, b.m), a.e + b.e, a.x /\ b.x)

HSquare(a) == HMul(a, a)

HRecipOf(a, d, sh) == HTrunc(d.q, -a.e - sh, a.x /\ d.r = <<>>)

\* 1 / a
HRecip(a) ==
  LET sh == BBitLen(a.m) + HPrec
  IN  HRecipOf(a, BDivMod(BShl(BOne, sh), a.m), sh)

\* a^n for n >= 1, by squaring, from the top bit of n down: acc is a to
\* the power of the bits of n above bit i.
RECURSIVE HPowAt(_, _, _, _)
HPowAt(a, n, i, acc) ==
  IF i < 0 THEN acc
  ELSE Strict(acc,
         HPowAt(a, n, i - 1,
                IF (n \div Pow2(i)) % 2 = 1 THEN HMul(HSquare(acc), a)
                ELSE HSquare(acc)))

HPow(a, n) == HPowAt(a, n, BitLenNat(n) - 2, a)

FRoundDownAt(s, m, e, len) ==
  IF len <= 53 THEN FNumber(s, BShl(m, 53 - len), e - (53 - len))
  ELSE FNumber(s, BShr(m, len - 53), e + len - 53)

\* The number of greatest magnitude not above m * 2^e in magnitude.
FRoundDown(s, m, e) == FRoundDownAt(s, m, e, BBitLen(m))

FRoundUpAt(s, m, e, len) ==
  IF len <= 53 \/ ~BLowBits(m, len - 53) THEN FRoundDownAt(s, m, e, len)
  ELSE FRoundCarry(s, BAdd(BShr(m, len - 53), BOne), e + len - 53)

\* The number of least magnitude not below m * 2^e in magnitude.
FRoundUp(s, m, e) == FRoundUpAt(s, m, e, BBitLen(m))

\* A number above the largest finite one is an infinity.
FOverflow(a) == IF a.k = "fin" /\ a.m # <<>> /\ a.e + 52 > 1023 THEN FInf(a.s) ELSE a

FBetween(s, lo, hi, e) ==
  { FOverflow(FRoundDown(s, lo, e)), FOverflow(FRoundUp(s, lo, e)),
    FOverflow(FRoundDown(s, hi, e)), FOverflow(FRoundUp(s, hi, e)) }

FWithin(s, m4, sl, e) == FBetween(s, BSub(m4, sl), BAdd(m4, sl), e)

FNearMantissa(s, m4, e) == FWithin(s, m4, BAdd(BShr(m4, HSlack), BOne), e)

FIsExact(h, len) == h.x /\ (len <= 53 \/ ~BLowBits(h.m, len - 53))

\* The numbers less than one ulp away from a real value of sign s that is
\* h when h.x, and is within h * 2^-HSlack of h otherwise.
FNear(s, h) ==
  IF FIsExact(h, BBitLen(h.m)) THEN {FOverflow(FRoundDown(s, h.m, h.e))}
  ELSE FNearMantissa(s, BShl(h.m, 4), h.e - 4)

\* Math.pow(base, n) for an integer n.
Math_pow(base, n) ==
  IF n = 0 THEN {FFromInt(1)}
  ELSE IF base.k = "nan" THEN {FNaN}
  ELSE IF base.k = "inf"
  THEN {IF n < 0 THEN FZero ELSE FInf(IF base.s < 0 /\ n % 2 # 0 THEN -1 ELSE 1)}
  ELSE IF base.m = <<>>
  THEN {IF n > 0 THEN FZero ELSE FInf(IF base.s < 0 /\ n % 2 # 0 THEN -1 ELSE 1)}
  ELSE FNear(IF base.s < 0 /\ n % 2 # 0 THEN -1 ELSE 1,
             IF n > 0 THEN HPow([m |-> base.m, e |-> base.e, x |-> TRUE], n)
             ELSE HRecip(HPow([m |-> base.m, e |-> base.e, x |-> TRUE], -n)))

\* Math.LN2 * 2^120, truncated.
LN2Scale == 120
LN2 == BDec(<<9213, 5063, 7599, 6613, 522, 6344, 3076, 7247, 8454>>)

\* (1 + w/3 + w^2/5 + ...) * 2^LN2Scale for w * 2^LN2Scale = wfx below
\* 2^LN2Scale / 30: the series of atanh(z) / z at w = z^2, cut at the term
\* LogTerms, which is below 2^-HSlack, and summed from that term down, three
\* terms at a time; acc is the sum from the term j + 1 on.
LogTerms == 18

LogTerm == [j \in 0..LogTerms |-> BDiv(BShl(BOne, LN2Scale), BFromNat(2 * j + 1))]

LogStep(wfx, j, acc) == BAdd(LogTerm[j], BShr(BMul(wfx, acc), LN2Scale))

RECURSIVE LogSeries(_, _, _)
LogSeries(wfx, j, acc) ==
  IF j < 0 THEN acc
  ELSE Strict(acc,
         LogSeries(wfx, j - 3,
                   LogStep(wfx, j - 2, LogStep(wfx, j - 1, LogStep(wfx, j, acc)))))

\* |k| * ln 2 + zs * lnf * 2^(1 - sh), at the scale 2^(2 * LN2Scale + 8),
\* for k # 0; it has the sign of k.
LogSum(k, zs, sh, lnf, kl) ==
  IF (k < 0) = (zs < 0)
  THEN BAdd(kl, IF sh >= 9 THEN BShr(lnf, sh - 9) ELSE BShl(lnf, 9 - sh))
  ELSE BSub(kl, IF sh >= 9 THEN BShr(lnf, sh - 9) ELSE BShl(lnf, 9 - sh))

\* lnf is |ln f| * 2^(2 * LN2Scale + sh - 1).
LogOfSeries(k, zs, sh, lnf) ==
  Strict(lnf,
    FNear(IF k = 0 THEN zs ELSE IF k < 0 THEN -1 ELSE 1,
          IF k = 0 THEN HTrunc(lnf, 1 - sh - 2 * LN2Scale, FALSE)
          ELSE HTrunc(LogSum(k, zs, sh, lnf,
                             BShl(BMul(BFromNat(Abs(k)), LN2), LN2Scale + 8)),
                      -2 * LN2Scale - 8, FALSE)))

\* ser is atanh(z) / z * 2^LN2Scale.
LogOfSum(k, zs, sh, zfx, ser) == Strict(ser, LogOfSeries(k, zs, sh, BMul(zfx, ser)))

\* zfx is |z| * 2^(LN2Scale + sh).
LogOfZ(k, zs, sh, zfx) ==
  Strict(zfx,
    LogOfSum(k, zs, sh, zfx,
             LogSeries(BShr(BMul(zfx, zfx), LN2Scale + 2 * sh),
                       LogTerms - 1, LogTerm[LogTerms])))

LogOfShifted(k, zs, num, den, sh) ==
  LogOfZ(k, zs, sh, BDiv(BShl(num, LN2Scale + sh), den))

\* z = zs * num / den
LogOfRatio(k, zs, num, den) ==
  LogOfShifted(k, zs, num, den, BBitLen(den) - BBitLen(num))

\* ln(2^k * m / one)
LogOfReduced(k, m, one) ==
  IF m # one
  THEN LogOfRatio(k, IF BLt(m, one) THEN -1 ELSE 1,
                  IF BLt(m, one) THEN BSub(one, m) ELSE BSub(m, one), BAdd(m, one))
  ELSE IF k = 0 THEN {FZero}
  ELSE FNear(IF k < 0 THEN -1 ELSE 1,
             [m |-> BMul(BFromNat(Abs(k)), LN2), e |-> -LN2Scale, x |-> FALSE])

\* The mantissa m is halved when above 23 / 16, which is above sqrt(2) by
\* less than 2%.
LogHalved(m) == IF BLt(BMulSmall(BShl(BOne, 52), 23), BShl(m, 4)) THEN 1 ELSE 0

\* Math.log(x): with x = f * 2^k and f between sqrt(1/2) and sqrt(2),
\* ln x = k * ln 2 + 2 * atanh(z) for z = (f - 1) / (f + 1).
Math_log(x) ==
  IF x.k = "nan" THEN {FNaN}
  ELSE IF x.k = "fin" /\ x.m = <<>> THEN {FInf(-1)}
  ELSE IF x.s < 0 THEN {FNaN}
  ELSE IF x.k = "inf" THEN {FInf(1)}
  ELSE LogOfReduced(x.e + 52 + LogHalved(x.m), x.m, BShl(BOne, 52 + LogHalved(x.m)))

----------------------------------------------------------------------------
(* utils/tickMath.ts *)

Q64 == BShl(BOne, 64)

\* The table of positiveTickToSqrtPriceX64: entry i + 1 is the factor applied
\* when bit 2^i of the tick is set.
TickFactor ==
  << BDec(<<1844, 6920, 3948, 2095, 6382>>),
     BDec(<<1844, 7543,  410, 8683, 9124>>),
     BDec(<<1844, 8788, 3215, 6861, 8856>>),
     BDec(<<1845, 1278, 9122, 5968, 8804>>),
     BDec(<<1845, 6260, 7004, 4028, 6180>>),
     BDec(<<1846, 6227,  882, 8512, 8992>>),
     BDec(<<1848, 6176, 2690, 7776, 7396>>),
     BDec(<<1852, 6121, 3991, 2794, 3904>>),
     BDec(<<1860, 6151, 2200, 9338, 8560>>),
     BDec(<<1876, 6697, 3280, 1962,   32>>),
     BDec(<<1908, 9995, 6569, 9839, 2688>>),
     BDec(<<1974, 4342, 9693, 4203, 6992>>),
     BDec(<<2108, 2570, 6710, 8889,  880>>),
     BDec(<<2387, 7027, 2398, 8647, 4240>>),
     BDec(<<3065, 2171, 8796, 3985, 5104>>),
     BDec(<<5046, 2168,  823, 5623, 9360>>),
     BDec(<<   1, 3675, 7009, 9413, 3016, 5760>>),
     BDec(<<  10,  519, 5981, 3130, 5334, 3232>>),
     BDec(<< 543, 5330, 3137, 7582, 7558, 4000>>) >>

\* ratio after the `if (tick & 2^i)` lines for bits i .. 18.
RECURSIVE TickLadder(_, _, _)
TickLadder(tick, i, ratio) ==
  IF i > 18 THEN ratio
  ELSE Strict(ratio,
         TickLadder(tick, i + 1,
                    IF (tick \div Pow2(i)) % 2 = 1
                    THEN BShr(BMul(ratio, TickFactor[i + 1]), 64)
                    ELSE ratio))

positiveTickToSqrtPriceX64(tick) == TickLadder(tick, 0, Q64)

negativeTickToSqrtPriceX64(tick) ==
  LET absTick == Abs(tick)
      sqrtPrice == positiveTickToSqrtPriceX64(absTick)
      Q128 == BShl(BOne, 128)
  IN  BDiv(Q128, sqrtPrice)

tickToSqrtPriceX64(tick) ==
  IF tick >= 0 THEN positiveTickToSqrtPriceX64(tick)
  ELSE negativeTickToSqrtPriceX64(tick)

\* A call that throws returns no result: [ok |-> FALSE, error |-> message].
Throw(message) == [ok |-> FALSE, error |-> message]

\* BN.toNumber raises on a number of more than 53 bits.
BN_toNumber(a) ==
  IF BBitLen(a) > 53 THEN Throw("Number can only safely store up to 53 bits")
  ELSE [ok |-> TRUE, value |-> FFromBig(1, a)]

\* Math.floor(Math.log(sqrtPriceNum * sqrtPriceNum) / Math.log(1.0001))
sqrtPriceNumToTick(sqrtPriceNum) ==
  { FFloor(FDiv(a, b)) : a \in Math_log(FMul(sqrtPriceNum, sqrtPriceNum)),
                         b \in Math_log(FDec(10001, 10000)) }

sqrtPriceX64ToTickOf(number) ==
  IF ~number.ok THEN {number}
  ELSE { [ok |-> TRUE, tick |-> t] :
           t \in sqrtPriceNumToTick(FDiv(number.value, FPow2(64))) }

\* The ticks sqrtPriceX64ToTick can return, or the error it raises.
sqrtPriceX64ToTick(sqrtPriceX64) == sqrtPriceX64ToTickOf(BN_toNumber(sqrtPriceX64))

\* The mutant: the logarithm is taken to the base 1.001.
priceToTick_Base(price) ==
  { FFloor(FDiv(a, b)) : a \in Math_log(price),
                         b \in Math_log(FDec(1001, 1000)) }

\* The ticks Math.floor(Math.log(price) / Math.log(1.0001)) can be.
priceToTick(price) ==
  { FFloor(FDiv(a, b)) : a \in Math_log(price),
                         b \in Math_log(FDec(10001, 10000)) }

\* The prices Math.pow(1.0001, tick) can be, for an integer tick.
tickToPrice(tick) == Math_pow(FDec(10001, 10000), tick)

\* The mutant: the quotient is truncated toward zero, not floored.
alignTickToSpacing_Trunc(tick, tickSpacing, roundUp) ==
  LET q == FDiv(tick, tickSpacing)
  IN  IF roundUp THEN FMul(FCeil(q), tickSpacing)
      ELSE FMul(IF q.s < 0 THEN FCeil(q) ELSE FFloor(q), tickSpacing)

\* tick, tickSpacing and the result are numbers.
alignTickToSpacing(tick, tickSpacing, roundUp) ==
  IF roundUp THEN FMul(FCeil(FDiv(tick, tickSpacing)), tickSpacing)
  ELSE FMul(FFloor(FDiv(tick, tickSpacing)), tickSpacing)

\* BigInt(x) for an integral number x >= 0.
BigIntOf(x) ==
  IF x.m = <<>> THEN BZero
  ELSE IF x.e >= 0 THEN BShl(x.m, x.e) ELSE BShr(x.m, -x.e)

\* The number 1e18.
E18 == FMul(FFromInt(10 ^ 9), FFromInt(10 ^ 9))

\* BigInt('18446744073709551616'), 2^64
TWO_POW_64 == BShl(BOne, 64)

\* sqrtPriceScaled for scaled = Math.floor(sqrtPrice * 1e18); BigInt throws a
\* RangeError on NaN and Infinity.
sqrtPriceScaledOf(scaled) ==
  IF scaled.k # "fin"
  THEN [ok |-> FALSE, error |-> "RangeError: cannot be converted to a BigInt"]
  ELSE [ok |-> TRUE,
        value |-> BDiv(BMul(BigIntOf(scaled), TWO_POW_64), BigIntOf(E18))]

\* The results of priceToSqrtPriceX64, one for each value Math.pow can
\* return; decimalsA and decimalsB are integers.
sqrtPriceX64OfSqrt(sqrtPrice) ==
  Strict(sqrtPrice, sqrtPriceScaledOf(FFloor(FMul(sqrtPrice, E18))))

sqrtPriceX64OfAdjusted(adjustedPrice) ==
  Strict(adjustedPrice, sqrtPriceX64OfSqrt(FSqrt(adjustedPrice)))

priceToSqrtPriceX64(price, decimalsA, decimalsB) ==
  IF FLe(price, FZero) THEN {[ok |-> TRUE, value |-> BZero]}
  ELSE { sqrtPriceX64OfAdjusted(FDiv(price, scale)) :
           scale \in Math_pow(FFromInt(10), decimalsA - decimalsB) }

----------------------------------------------------------------------------
(* utils/clmmMath.ts *)

F0 == FZero
F1 == FFromInt(1)
F2 == FFromInt(2)
F100 == FFromInt(100)

\* IL = 2 sqrt(k) / (1 + k) - 1, in percent.
calculateV2_IL(priceRatio) ==
  IF FLe(priceRatio, F0) THEN F0
  ELSE FMul(FSub(FDiv(FMul(F2, FSqrt(priceRatio)), FAdd(F1, priceRatio)), F1), F100)

\* The mutant: below the range the position is put in token X, as it is above.
getAmountsForLiquidity_Swapped(sqrtPrice, sqrtPriceLower, sqrtPriceUpper, liquidity) ==
  IF FLe(sqrtPrice, sqrtPriceLower) \/ FGe(sqrtPrice, sqrtPriceUpper)
  THEN [amount0 |-> FMul(liquidity, FSub(FDiv(F1, sqrtPriceLower),
                                         FDiv(F1, sqrtPriceUpper))),
        amount1 |-> F0]
  ELSE [amount0 |-> FMul(liquidity, FSub(FDiv(F1, sqrtPrice),
                                         FDiv(F1, sqrtPriceUpper))),
        amount1 |-> FMul(liquidity, FSub(sqrtPrice, sqrtPriceLower))]

getAmountsForLiquidity(sqrtPrice, sqrtPriceLower, sqrtPriceUpper, liquidity) ==
  IF FLe(sqrtPrice, sqrtPriceLower)
  THEN [amount0 |-> F0,
        amount1 |-> FMul(liquidity, FSub(sqrtPriceUpper, sqrtPriceLower))]
  ELSE IF FGe(sqrtPrice, sqrtPriceUpper)
  THEN [amount0 |-> FMul(liquidity, FSub(FDiv(F1, sqrtPriceLower),
                                         FDiv(F1, sqrtPriceUpper))),
        amount1 |-> F0]
  ELSE [amount0 |-> FMul(liquidity, FSub(FDiv(F1, sqrtPrice),
                                         FDiv(F1, sqrtPriceUpper))),
        amount1 |-> FMul(liquidity, FSub(sqrtPrice, sqrtPriceLower))]

\* The copy in src/types/index.ts: token A below the range, token B above.
types_getAmountsForLiquidity(sqrtPrice, sqrtPriceLower, sqrtPriceUpper, liquidity) ==
  IF FLe(sqrtPrice, sqrtPriceLower)
  THEN [amount0 |-> FMul(liquidity, FSub(FDiv(F1, sqrtPriceLower),
                                         FDiv(F1, sqrtPriceUpper))),
        amount1 |-> F0]
  ELSE IF FGe(sqrtPrice, sqrtPriceUpper)
  THEN [amount0 |-> F0,
        amount1 |-> FMul(liquidity, FSub(sqrtPriceUpper, sqrtPriceLower))]
  ELSE [amount0 |-> FMul(liquidity, FSub(FDiv(F1, sqrtPrice),
                                         FDiv(F1, sqrtPriceUpper))),
        amount1 |-> FMul(liquidity, FSub(sqrtPrice, sqrtPriceLower))]

\* denominator > 0 ? amount / denominator : otherwise
liquidityFor(amount, denominator, otherwise) ==
  IF FGt(denominator, F0) THEN FDiv(amount, denominator) ELSE otherwise

\* The mutant: in the range, token Y is measured from the upper bound.
getLiquidityFromAmounts_Upper(sqrtPrice, sqrtPriceLower, sqrtPriceUpper, amount0, amount1) ==
  IF FLe(sqrtPrice, sqrtPriceLower)
  THEN liquidityFor(amount0, FSub(FDiv(F1, sqrtPriceLower), FDiv(F1, sqrtPriceUpper)), F0)
  ELSE IF FGe(sqrtPrice, sqrtPriceUpper)
  THEN liquidityFor(amount1, FSub(sqrtPriceUpper, sqrtPriceLower), F0)
  ELSE FMin(liquidityFor(amount0, FSub(FDiv(F1, sqrtPrice), FDiv(F1, sqrtPriceUpper)),
                         FInf(1)),
            liquidityFor(amount1, FSub(sqrtPriceUpper, sqrtPrice), FInf(1)))

getLiquidityFromAmounts(sqrtPrice, sqrtPriceLower, sqrtPriceUpper, amount0, amount1) ==
  IF FLe(sqrtPrice, sqrtPriceLower)
  THEN liquidityFor(amount0, FSub(FDiv(F1, sqrtPriceLower), FDiv(F1, sqrtPriceUpper)), F0)
  ELSE IF FGe(sqrtPrice, sqrtPriceUpper)
  THEN liquidityFor(amount1, FSub(sqrtPriceUpper, sqrtPriceLower), F0)
  ELSE FMin(liquidityFor(amount0, FSub(FDiv(F1, sqrtPrice), FDiv(F1, sqrtPriceUpper)),
                         FInf(1)),
            liquidityFor(amount1, FSub(sqrtPrice, sqrtPriceLower), FInf(1)))

\* The mutant: the ratio of the values, without the `- valueHold`.
ilPercentageOf_Ratio(valueHold, valuePool) ==
  IF FGt(valueHold, F0) THEN FMul(FDiv(valuePool, valueHold), F100) ELSE F0

\* step 6: the loss as a percentage of the value held.
ilPercentageOf(valueHold, valuePool) ==
  IF FGt(valueHold, F0)
  THEN FMul(FDiv(FSub(valuePool, valueHold), valueHold), F100)
  ELSE F0

\* step 7
outOfRangeDirectionOf(targetPrice, priceLower, priceUpper) ==
  IF FLt(targetPrice, priceLower) THEN "below"
  ELSE IF FGt(targetPrice, priceUpper) THEN "above"
  ELSE "in-range"

\* The result returned at the end.
CLMMILResult(valueHold, valuePool, initialPos, finalPos, outOfRangeDirection) ==
  [ok |-> TRUE,
   ilPercentage |-> ilPercentageOf(valueHold, valuePool),
   valueHold |-> valueHold,
   valuePool |-> valuePool,
   initialAmountA |-> initialPos.amount0,
   initialAmountB |-> initialPos.amount1,
   finalAmountA |-> finalPos.amount0,
   finalAmountB |-> finalPos.amount1,
   isOutOfRange |-> outOfRangeDirection # "in-range",
   outOfRangeDirection |-> outOfRangeDirection]

\* The result returned when the liquidity cannot be calculated.
CLMMILUnknown(amountAInitial, amountBInitial, value) ==
  [ok |-> TRUE,
   ilPercentage |-> F0,
   valueHold |-> value,
   valuePool |-> value,
   initialAmountA |-> amountAInitial,
   initialAmountB |-> amountBInitial,
   finalAmountA |-> amountAInitial,
   finalAmountB |-> amountBInitial,
   isOutOfRange |-> FALSE,
   outOfRangeDirection |-> "in-range"]

\* step 5: the values in the quote asset.
valueOf(pos, targetPrice) == FAdd(FMul(pos.amount0, targetPrice), pos.amount1)

ILOfPositions(targetPrice, priceLower, priceUpper, initialPos, finalPos) ==
  CLMMILResult(valueOf(initialPos, targetPrice), valueOf(finalPos, targetPrice),
               initialPos, finalPos,
               outOfRangeDirectionOf(targetPrice, priceLower, priceUpper))

\* The mutant: a liquidity that cannot be used is an error.
ILOfLiquidity_Throw(targetPrice, priceLower, priceUpper, amountAInitial, amountBInitial, sqrtEntry, sqrtTarget, sqrtLower, sqrtUpper, liquidity) ==
  IF FLe(liquidity, F0) \/ ~FIsFinite(liquidity)
  THEN Throw("Invalid liquidity")
  ELSE ILOfPositions(targetPrice, priceLower, priceUpper,
         getAmountsForLiquidity(sqrtEntry, sqrtLower, sqrtUpper, liquidity),
         getAmountsForLiquidity(sqrtTarget, sqrtLower, sqrtUpper, liquidity))

\* The validation of the liquidity, and steps 3 and 4.
ILOfLiquidity(targetPrice, priceLower, priceUpper, amountAInitial, amountBInitial, sqrtEntry, sqrtTarget, sqrtLower, sqrtUpper, liquidity) ==
  IF FLe(liquidity, F0) \/ ~FIsFinite(liquidity)
  THEN CLMMILUnknown(amountAInitial, amountBInitial,
                     FAdd(FMul(amountAInitial, targetPrice), amountBInitial))
  ELSE ILOfPositions(targetPrice, priceLower, priceUpper,
         getAmountsForLiquidity(sqrtEntry, sqrtLower, sqrtUpper, liquidity),
         getAmountsForLiquidity(sqrtTarget, sqrtLower, sqrtUpper, liquidity))

\* step 2
ILOfSqrtPrices(targetPrice, priceLower, priceUpper, amountAInitial, amountBInitial, sqrtEntry, sqrtTarget, sqrtLower, sqrtUpper) ==
  ILOfLiquidity(targetPrice, priceLower, priceUpper, amountAInitial, amountBInitial,
                sqrtEntry, sqrtTarget, sqrtLower, sqrtUpper,
                getLiquidityFromAmounts(sqrtEntry, sqrtLower, sqrtUpper,
                                        amountAInitial, amountBInitial))

\* The validation of the inputs, and step 1.
calculateCLMM_IL(entryPrice, targetPrice, priceLower, priceUpper, amountAInitial, amountBInitial) ==
  IF FGe(priceLower, priceUpper)
  THEN Throw("Price lower must be less than price upper")
  ELSE IF FLe(entryPrice, F0) \/ FLe(targetPrice, F0)
  THEN Throw("Prices must be positive")
  ELSE ILOfSqrtPrices(targetPrice, priceLower, priceUpper, amountAInitial,
                      amountBInitial, FSqrt(entryPrice), FSqrt(targetPrice),
                      FSqrt(priceLower), FSqrt(priceUpper))

\* The literal 1e-10: 10^10 is a number, and the quotient is rounded once.
TinyDenominator == FDiv(F1, FMul(FFromInt(100000), FFromInt(100000)))

\* ilV2 * (numerator / denominator), or ilV2 where the denominator vanishes.
ILAnalyticalOf(ilV2, numerator, denominator) ==
  IF FLt(FAbs(denominator), TinyDenominator) THEN FMul(ilV2, F100)
  ELSE FMul(FMul(ilV2, FDiv(numerator, denominator)), F100)

ILAnalyticalOfRoots(k, sqrtK, sqrtN) ==
  ILAnalyticalOf(FSub(FDiv(FMul(F2, sqrtK), FAdd(F1, k)), F1),
                 FSub(FAdd(sqrtK, FDiv(F1, sqrtK)), F2),
                 FSub(FAdd(FMul(sqrtK, FSub(F1, FDiv(F1, sqrtN))),
                           FMul(FDiv(F1, sqrtK), FSub(sqrtN, F1))),
                      FSub(sqrtN, FDiv(F1, sqrtN))))

calculateCLMM_IL_Analytical(priceRatio, priceLower, priceUpper) ==
  IF FLe(priceRatio, F0) \/ FLe(priceLower, F0) \/ FLe(priceUpper, F0) THEN F0
  ELSE IF FEq(priceRatio, F1) THEN F0
  ELSE ILAnalyticalOfRoots(priceRatio, FSqrt(priceRatio),
                           FSqrt(FSqrt(FDiv(priceUpper, priceLower))))

\* 1 / (1 - 1 / sqrt(n)), at least 1, for n = sqrt(Pb / Pa)
calculateAmplificationFactor(priceLower, priceUpper) ==
  FMax(F1, FDiv(F1, FSub(F1, FDiv(F1, FSqrt(FSqrt(FDiv(priceUpper, priceLower)))))))

actualAmplificationOf(ilFinal, ilV2, baseAmplification) ==
  IF FEq(ilV2, F0) THEN baseAmplification ELSE FAbs(FDiv(ilFinal, ilV2))

amplificationFactorOf(result, ilV2, baseAmplification) ==
  IF result.isOutOfRange
  THEN FMax(actualAmplificationOf(result.ilPercentage, ilV2, baseAmplification),
            FMul(baseAmplification, F2))
  ELSE actualAmplificationOf(result.ilPercentage, ilV2, baseAmplification)

\* What one turn of the loop pushes: nothing when calculateCLMM_IL throws.
ILCurvePoint(priceChangePercent, targetPrice, result, ilV2, baseAmplification) ==
  IF ~result.ok THEN <<>>
  ELSE << [priceChange |-> priceChangePercent,
           targetPrice |-> targetPrice,
           ilPercentage |-> result.ilPercentage,
           ilV2Percentage |-> ilV2,
           amplificationFactor |-> amplificationFactorOf(result, ilV2, baseAmplification),
           valueHold |-> result.valueHold,
           valuePool |-> result.valuePool,
           isOutOfRange |-> result.isOutOfRange,
           outOfRangeDirection |-> result.outOfRangeDirection] >>

\* One turn of the loop, for the arguments c of generateILCurve.
ILCurveTurn(c, priceChangePercent, targetPrice, baseAmplification) ==
  IF FLe(targetPrice, F0) THEN <<>>
  ELSE ILCurvePoint(priceChangePercent, targetPrice,
                    calculateCLMM_IL(c.currentPrice, targetPrice, c.priceLower,
                                     c.priceUpper, c.amountA, c.amountB),
                    calculateV2_IL(FDiv(targetPrice, c.currentPrice)),
                    baseAmplification)

\* The mutant: the step is added once, whatever the turn.
priceChangePercentOf_Once(min, stepSize, i) == FAdd(min, stepSize)

priceChangePercentOf(min, stepSize, i) == FAdd(min, FMul(FFromInt(i), stepSize))

targetPriceOf(currentPrice, priceChangePercent) ==
  FMul(currentPrice, FAdd(F1, FDiv(priceChangePercent, F100)))

ILCurveAt(c, priceChangePercent, baseAmplification) ==
  ILCurveTurn(c, priceChangePercent, targetPriceOf(c.currentPrice, priceChangePercent),
              baseAmplification)

RECURSIVE ILCurveLoop(_, _, _, _, _)
ILCurveLoop(c, stepSize, baseAmplification, i, curve) ==
  IF i > c.steps THEN curve
  ELSE Strict(curve,
         ILCurveLoop(c, stepSize, baseAmplification, i + 1,
                     curve \o ILCurveAt(c, priceChangePercentOf(c.min, stepSize, i),
                                        baseAmplification)))

\* c holds the arguments: currentPrice, priceLower, priceUpper, amountA,
\* amountB, and min, max, steps of priceChangeRange.
generateILCurve(c) ==
  ILCurveLoop(c, FDiv(FSub(c.max, c.min), FFromInt(c.steps)),
              calculateAmplificationFactor(c.priceLower, c.priceUpper), 0, <<>>)

----------------------------------------------------------------------------
(* Fee APY and the rebalancing simulator.                                   *)
CETUS_PROTOCOL_FEE_RATE == FDec(20, 100)
CETUS_LP_FEE_SHARE == FDec(80, 100)

\* The results calculateCLMMAPY can return: one for each value Math.pow can
\* return for the compounding.
CLMMAPYOfFees(positionValueUSD, capitalEfficiency, protocolFee, dailyFees) ==
  { [apy |-> FMin(FMul(FSub(pow, F1), F100), FFromInt(100000)),
     dailyFees |-> dailyFees,
     capitalEfficiency |-> capitalEfficiency,
     protocolFee |-> protocolFee] :
      pow \in Math_pow(FAdd(F1, FDiv(dailyFees, positionValueUSD)), 365) }

\* The mutant: all of the swap fees go to the position, none to the protocol.
CLMMAPYOfSwapFees_NoSplit(positionValueUSD, capitalEfficiency, totalSwapFees) ==
  CLMMAPYOfFees(positionValueUSD, capitalEfficiency, F0, totalSwapFees)

CLMMAPYOfSwapFees(positionValueUSD, capitalEfficiency, totalSwapFees) ==
  CLMMAPYOfFees(positionValueUSD, capitalEfficiency,
                FMul(totalSwapFees, CETUS_PROTOCOL_FEE_RATE),
                FMul(totalSwapFees, CETUS_LP_FEE_SHARE))

CLMMAPYOfEfficiency(dailyVolume, feeRate, positionValueUSD, totalPoolTVL, capitalEfficiency) ==
  CLMMAPYOfSwapFees(positionValueUSD, capitalEfficiency,
    FMul(FMul(dailyVolume, feeRate),
         FMin(FMul(FDiv(positionValueUSD, totalPoolTVL), capitalEfficiency), F1)))

\* The mutant: only a position without value is degenerate.
calculateCLMMAPY_PositionOnly(dailyVolume, feeRate, positionValueUSD, totalPoolTVL, priceRangeWidth) ==
  IF FLe(positionValueUSD, F0)
  THEN {[apy |-> F0, dailyFees |-> F0, capitalEfficiency |-> F1, protocolFee |-> F0]}
  ELSE CLMMAPYOfEfficiency(dailyVolume, feeRate, positionValueUSD, totalPoolTVL,
         IF FGt(priceRangeWidth, F0) THEN FMin(FDiv(F1, priceRangeWidth), F100)
         ELSE F1)

calculateCLMMAPY(dailyVolume, feeRate, positionValueUSD, totalPoolTVL, priceRangeWidth) ==
  IF FLe(positionValueUSD, F0) \/ FLe(totalPoolTVL, F0)
  THEN {[apy |-> F0, dailyFees |-> F0, capitalEfficiency |-> F1, protocolFee |-> F0]}
  ELSE CLMMAPYOfEfficiency(dailyVolume, feeRate, positionValueUSD, totalPoolTVL,
         IF FGt(priceRangeWidth, F0) THEN FMin(FDiv(F1, priceRangeWidth), F100)
         ELSE F1)

\* The defaults of simulateRebalance's last two parameters.
DefaultGasCostSUI == FDec(1, 100)
DefaultSuiPriceUSD == FDec(125, 100)

\* The mutant: the gas of one transaction.
gasCostUSDOf_OneTransaction(gasCostSUI, suiPriceUSD) == FMul(gasCostSUI, suiPriceUSD)

\* 2 transactions: remove + add
gasCostUSDOf(gasCostSUI, suiPriceUSD) == FMul(FMul(gasCostSUI, suiPriceUSD), F2)

\* The break-even
breakEvenDaysOf(gasCostUSD, dailyGain) ==
  IF FGt(dailyGain, F0) THEN FDiv(gasCostUSD, dailyGain) ELSE FInf(1)

\* The mutant: the break-even rules come before the back-in-range rule.
recommendationOf_BreakEvenFirst(isInNewRange, wasOutOfRange, breakEvenDays) ==
  IF ~isInNewRange THEN "not-recommended"
  ELSE IF FLt(breakEvenDays, FFromInt(7)) THEN "recommended"
  ELSE IF FGt(breakEvenDays, FFromInt(30)) THEN "not-recommended"
  ELSE IF wasOutOfRange /\ isInNewRange THEN "recommended"
  ELSE "neutral"

\* The recommendation logic
recommendationOf(isInNewRange, wasOutOfRange, breakEvenDays) ==
  IF ~isInNewRange THEN "not-recommended"
  ELSE IF wasOutOfRange /\ isInNewRange THEN "recommended"
  ELSE IF FLt(breakEvenDays, FFromInt(7)) THEN "recommended"
  ELSE IF FGt(breakEvenDays, FFromInt(30)) THEN "not-recommended"
  ELSE "neutral"

\* The scenario returned (the reason text is left out).
RebalanceScenario(currentPrice, oldPriceLower, oldPriceUpper, newPriceLower, newPriceUpper, gasCostUSD, newAPY, breakEvenDays) ==
  [newPriceLower |-> newPriceLower,
   newPriceUpper |-> newPriceUpper,
   gasCostUSD |-> gasCostUSD,
   newAPY |-> newAPY,
   breakEvenDays |-> breakEvenDays,
   recommendation |->
     recommendationOf(
       FGe(currentPrice, newPriceLower) /\ FLe(currentPrice, newPriceUpper),
       FLt(currentPrice, oldPriceLower) \/ FGt(currentPrice, oldPriceUpper),
       breakEvenDays)]

\* The scenarios for the gas cost in USD: one for each pair of results
\* calculateCLMMAPY can return for the old range and for the new one.
simulateRebalanceAt(currentPrice, oldPriceLower, oldPriceUpper, newPriceLower, newPriceUpper, positionValueUSD, dailyVolume, feeRate, totalPoolTVL, gasCostUSD) ==
  { RebalanceScenario(currentPrice, oldPriceLower, oldPriceUpper, newPriceLower,
                      newPriceUpper, gasCostUSD, newAPY.apy,
                      breakEvenDaysOf(gasCostUSD,
                                      FSub(newAPY.dailyFees, oldAPY.dailyFees))) :
      oldAPY \in calculateCLMMAPY(dailyVolume, feeRate, positionValueUSD, totalPoolTVL,
                   FDiv(FSub(oldPriceUpper, oldPriceLower), currentPrice)),
      newAPY \in calculateCLMMAPY(dailyVolume, feeRate, positionValueUSD, totalPoolTVL,
                   FDiv(FSub(newPriceUpper, newPriceLower), currentPrice)) }

\* The scenarios simulateRebalance can return.
simulateRebalance(currentPrice, oldPriceLower, oldPriceUpper, newPriceLower, newPriceUpper, positionValueUSD, dailyVolume, feeRate, totalPoolTVL, gasCostSUI, suiPriceUSD) ==
  simulateRebalanceAt(currentPrice, oldPriceLower, oldPriceUpper, newPriceLower,
                      newPriceUpper, positionValueUSD, dailyVolume, feeRate,
                      totalPoolTVL, gasCostUSDOf(gasCostSUI, suiPriceUSD))

----------------------------------------------------------------------------
(* Fixed-point liquidity (unnamed/part_004): square-root prices are BN      *)
(* scaled by 2^64, amounts and liquidities are BN.                          *)

\* BN.min
BNMin(a, b) == IF BLe(a, b) THEN a ELSE b

\* L = amountA * sqrt(P) * sqrt(Pb) / (sqrt(Pb) - sqrt(P))
getLiquidityFromAmountA(sqrtPriceCurrentX64, sqrtPriceUpperX64, amountA) ==
  IF BLe(sqrtPriceUpperX64, sqrtPriceCurrentX64) THEN BZero
  ELSE BShr(BDiv(BMul(BMul(amountA, sqrtPriceCurrentX64), sqrtPriceUpperX64),
                 BSub(sqrtPriceUpperX64, sqrtPriceCurrentX64)), 64)

\* L = amountB / (sqrt(P) - sqrt(Pa))
getLiquidityFromAmountB(sqrtPriceLowerX64, sqrtPriceCurrentX64, amountB) ==
  IF BLe(sqrtPriceCurrentX64, sqrtPriceLowerX64) THEN BZero
  ELSE BDiv(BShl(amountB, 64), BSub(sqrtPriceCurrentX64, sqrtPriceLowerX64))

\* The mutant: in the range, the liquidity of token A is returned.
estimateLiquidityAt_FromA(currentSqrtPriceX64, sqrtPriceLowerX64, sqrtPriceUpperX64, liquidityFromA, liquidityFromB) ==
  IF BLe(currentSqrtPriceX64, sqrtPriceLowerX64) THEN liquidityFromA
  ELSE IF BLe(sqrtPriceUpperX64, currentSqrtPriceX64) THEN liquidityFromB
  ELSE liquidityFromA

\* The mutant: in the range, the larger of the two liquidities is returned.
estimateLiquidityAt_Max(currentSqrtPriceX64, sqrtPriceLowerX64, sqrtPriceUpperX64, liquidityFromA, liquidityFromB) ==
  IF BLe(currentSqrtPriceX64, sqrtPriceLowerX64) THEN liquidityFromA
  ELSE IF BLe(sqrtPriceUpperX64, currentSqrtPriceX64) THEN liquidityFromB
  ELSE IF BLe(liquidityFromA, liquidityFromB) THEN liquidityFromB ELSE liquidityFromA

\* The choice between liquidityFromA and liquidityFromB.
estimateLiquidityAt(currentSqrtPriceX64, sqrtPriceLowerX64, sqrtPriceUpperX64, liquidityFromA, liquidityFromB) ==
  IF BLe(currentSqrtPriceX64, sqrtPriceLowerX64) THEN liquidityFromA
  ELSE IF BLe(sqrtPriceUpperX64, currentSqrtPriceX64) THEN liquidityFromB
  ELSE BNMin(liquidityFromA, liquidityFromB)

estimateLiquidityBetween(currentSqrtPriceX64, sqrtPriceLowerX64, sqrtPriceUpperX64, amountA, amountB) ==
  estimateLiquidityAt(currentSqrtPriceX64, sqrtPriceLowerX64, sqrtPriceUpperX64,
                      getLiquidityFromAmountA(currentSqrtPriceX64, sqrtPriceUpperX64, amountA),
                      getLiquidityFromAmountB(sqrtPriceLowerX64, currentSqrtPriceX64, amountB))

estimateLiquidityFromAmounts(currentSqrtPriceX64, tickLower, tickUpper, amountA, amountB) ==
  estimateLiquidityBetween(currentSqrtPriceX64, tickToSqrtPriceX64(tickLower),
                           tickToSqrtPriceX64(tickUpper), amountA, amountB)

\* amountA = L * (sqrt(Pb) - sqrt(P)) / (sqrt(P) * sqrt(Pb))
getAmountAFromLiquidityOf(numerator, denominator) ==
  IF BIsZero(denominator) THEN BZero ELSE BDiv(numerator, denominator)

getAmountAFromLiquidity(sqrtPriceLowerX64, sqrtPriceUpperX64, liquidity) ==
  getAmountAFromLiquidityOf(
    BShl(BMul(liquidity, BSub(sqrtPriceUpperX64, sqrtPriceLowerX64)), 64),
    BMul(sqrtPriceLowerX64, sqrtPriceUpperX64))

\* amountB = L * (sqrt(P) - sqrt(Pa))
getAmountBFromLiquidity(sqrtPriceLowerX64, sqrtPriceUpperX64, liquidity) ==
  BShr(BMul(liquidity, BSub(sqrtPriceUpperX64, sqrtPriceLowerX64)), 64)

getCoinAmountsBetween(liquidity, sqrtPriceX64, sqrtPriceLowerX64, sqrtPriceUpperX64) ==
  IF BLe(sqrtPriceX64, sqrtPriceLowerX64)
  THEN [amountA |-> getAmountAFromLiquidity(sqrtPriceLowerX64, sqrtPriceUpperX64, liquidity),
        amountB |-> BZero]
  ELSE IF BLe(sqrtPriceUpperX64, sqrtPriceX64)
  THEN [amountA |-> BZero,
        amountB |-> getAmountBFromLiquidity(sqrtPriceLowerX64, sqrtPriceUpperX64, liquidity)]
  ELSE [amountA |-> getAmountAFromLiquidity(sqrtPriceX64, sqrtPriceUpperX64, liquidity),
        amountB |-> getAmountBFromLiquidity(sqrtPriceLowerX64, sqrtPriceX64, liquidity)]

getCoinAmountsFromLiquidity(liquidity, sqrtPriceX64, tickLower, tickUpper) ==
  getCoinAmountsBetween(liquidity, sqrtPriceX64, tickToSqrtPriceX64(tickLower),
                        tickToSqrtPriceX64(tickUpper))

----------------------------------------------------------------------------
(* utils/simulation.ts. The powers of ten Math.pow returns are arguments    *)
(* here (powA, powB for 10^decimalsA, 10^decimalsB and scale for            *)
(* 10^(decimalsA - decimalsB)): a call of runSimulation sees one value of   *)
(* each. The record c holds what runSimulation hands to generateILCurve,    *)
(* with the square-root prices of the two ticks.                            *)

\* new BN(number) raises on a number of 2^53 or more.
BN_ofNumber(x) ==
  IF x.k # "fin" \/ FGe(x, FPow2(53)) THEN Throw("Assertion failed")
  ELSE [ok |-> TRUE, value |-> BigIntOf(x)]

\* priceToSqrtPriceX64 where Math.pow(10, decimalsA - decimalsB) is scale.
priceToSqrtPriceX64At(price, scale) ==
  IF FLe(price, FZero) THEN [ok |-> TRUE, value |-> BZero]
  ELSE sqrtPriceX64OfAdjusted(FDiv(price, scale))

\* amountA.toNumber() / 10^decimalsA * priceA + amountB.toNumber() / 10^decimalsB * priceB
valueOfAmounts(c, a, b, newPriceA) ==
  FAdd(FMul(FDiv(a, c.powA), newPriceA), FMul(FDiv(b, c.powB), c.priceB))

impermanentLossOf(valueIfHold, valueInPool) ==
  IF FGt(valueIfHold, F0)
  THEN FMul(FSub(FDiv(valueInPool, valueIfHold), F1), F100)
  ELSE F0

ILDataPoint(initialPriceA, newPriceA, valueIfHold, valueInPool) ==
  [ok |-> TRUE,
   priceChange |-> FMul(FDiv(FSub(newPriceA, initialPriceA), initialPriceA), F100),
   newPrice |-> newPriceA,
   impermanentLoss |-> impermanentLossOf(valueIfHold, valueInPool),
   valueIfHold |-> valueIfHold,
   valueInPool |-> valueInPool]

ILOfNewAmounts(c, newPriceA, holdA, holdB, newA, newB) ==
  IF ~newA.ok THEN newA
  ELSE IF ~newB.ok THEN newB
  ELSE ILDataPoint(c.currentPriceA, newPriceA,
                   valueOfAmounts(c, holdA.value, holdB.value, newPriceA),
                   valueOfAmounts(c, newA.value, newB.value, newPriceA))

ILOfCoinAmounts(c, newPriceA, holdA, holdB, amounts) ==
  ILOfNewAmounts(c, newPriceA, holdA, holdB,
                 BN_toNumber(amounts.amountA), BN_toNumber(amounts.amountB))

ILOfNewSqrtPrice(c, newPriceA, holdA, holdB, newSqrtPriceX64) ==
  IF ~holdA.ok THEN holdA
  ELSE IF ~holdB.ok THEN holdB
  ELSE IF ~newSqrtPriceX64.ok THEN newSqrtPriceX64
  ELSE ILOfCoinAmounts(c, newPriceA, holdA, holdB,
                       getCoinAmountsBetween(c.liquidity, newSqrtPriceX64.value,
                                             c.sqrtPriceLowerX64, c.sqrtPriceUpperX64))

calculateImpermanentLoss(c, newPriceA) ==
  ILOfNewSqrtPrice(c, newPriceA, BN_toNumber(c.amountA), BN_toNumber(c.amountB),
                   priceToSqrtPriceX64At(FDiv(newPriceA, c.priceB), c.scale))

priceChangeSteps == <<-50, -40, -30, -20, -10, 0, 10, 20, 30, 50, 75, 100>>

\* What map returns, or the first error raised in it.
ILDataPoints(points) ==
  IF \A i \in 1..Len(points) : points[i].ok THEN [ok |-> TRUE, value |-> points]
  ELSE points[CHOOSE i \in 1..Len(points) :
                ~points[i].ok /\ \A j \in 1..(i - 1) : points[j].ok]

simulation_generateILCurve(c) ==
  ILDataPoints([i \in 1..Len(priceChangeSteps) |->
    calculateImpermanentLoss(c, FMul(c.currentPriceA,
                                     FAdd(F1, FDiv(FFromInt(priceChangeSteps[i]), F100))))])

\* Math.min((Math.pow(1 + dailyYield, 365) - 1) * 100, 10000), for each value of Math.pow
calculateAPY(dailyFees, positionValueUSD) ==
  IF FLe(positionValueUSD, F0) THEN {F0}
  ELSE { FMin(FMul(FSub(p, F1), F100), FFromInt(10000)) :
           p \in Math_pow(FAdd(F1, FDiv(dailyFees, positionValueUSD)), 365) }

calculateBreakEvenDays(potentialIL, dailyFees) ==
  IF FLe(dailyFees, F0) THEN FInf(1) ELSE FDiv(FAbs(potentialIL), dailyFees)

\* ilByPriceChange.find(d => Math.abs(d.priceChange - 20) < 5), and its loss in USD
potentialIL20Of(ilByPriceChange, initialValueUSD) ==
  IF \A i \in 1..Len(ilByPriceChange) :
       ~FLt(FAbs(FSub(ilByPriceChange[i].priceChange, FFromInt(20))), FFromInt(5))
  THEN F0
  ELSE FAbs(FMul(FDiv(ilByPriceChange[
                        CHOOSE i \in 1..Len(ilByPriceChange) :
                          /\ FLt(FAbs(FSub(ilByPriceChange[i].priceChange, FFromInt(20))),
                                 FFromInt(5))
                          /\ \A j \in 1..(i - 1) :
                               ~FLt(FAbs(FSub(ilByPriceChange[j].priceChange,
                                              FFromInt(20))), FFromInt(5))
                      ].impermanentLoss, F100),
                 initialValueUSD))

\* The results returned, one for each estimatedAPY; risks is left out: it is
\* made by assessRisk of numbers alone, which raises nothing.
SimulationResult(c, initialValueUSD, ilByPriceChange, dailyFees) ==
  IF ~ilByPriceChange.ok THEN {ilByPriceChange}
  ELSE { [ok |-> TRUE,
          liquidity |-> c.liquidity,
          initialValueUSD |-> initialValueUSD,
          ilByPriceChange |-> ilByPriceChange.value,
          estimatedAPY |-> apy,
          dailyFees |-> dailyFees,
          yearlyFees |-> FMul(dailyFees, FFromInt(365)),
          breakEvenDays |-> calculateBreakEvenDays(
                              potentialIL20Of(ilByPriceChange.value, initialValueUSD),
                              dailyFees),
          currentSqrtPriceX64 |-> c.currentSqrtPriceX64] :
           apy \in calculateAPY(dailyFees, initialValueUSD) }

SimulationOf(c, initialValueUSD, positionShare, a) ==
  SimulationResult(c, initialValueUSD, simulation_generateILCurve(c),
                   FMul(FMul(a.volume24h, a.feeRate), positionShare))

SimulationOfLiquidity(c, a) ==
  SimulationOf(c, FAdd(FMul(a.amountAInput, a.currentPriceA),
                       FMul(a.amountBInput, a.priceB)),
               IF FGt(a.totalLiquidityUSD, F0)
               THEN FDiv(FAdd(FMul(a.amountAInput, a.currentPriceA),
                              FMul(a.amountBInput, a.priceB)), a.totalLiquidityUSD)
               ELSE F0,
               a)

SimulationContext(a, p, amountA, amountB, cur, lowerX64, upperX64) ==
  [currentPriceA |-> a.currentPriceA, priceB |-> a.priceB,
   amountA |-> amountA, amountB |-> amountB,
   powA |-> p.powA, powB |-> p.powB, scale |-> p.scale,
   currentSqrtPriceX64 |-> cur,
   sqrtPriceLowerX64 |-> lowerX64, sqrtPriceUpperX64 |-> upperX64,
   liquidity |-> estimateLiquidityBetween(cur, lowerX64, upperX64, amountA, amountB)]

SimulationOfAmounts(a, p, amountA, amountB, currentSqrtPriceX64) ==
  IF ~amountA.ok THEN {amountA}
  ELSE IF ~amountB.ok THEN {amountB}
  ELSE IF ~currentSqrtPriceX64.ok THEN {currentSqrtPriceX64}
  ELSE SimulationOfLiquidity(
         SimulationContext(a, p, amountA.value, amountB.value,
                           currentSqrtPriceX64.value,
                           tickToSqrtPriceX64(a.tickLower),
                           tickToSqrtPriceX64(a.tickUpper)), a)

\* a holds the arguments of runSimulation, p the powers of ten.
runSimulationAt(a, p) ==
  IF FLe(a.amountAInput, F0) /\ FLe(a.amountBInput, F0)
  THEN {Throw("At least one amount must be positive")}
  ELSE SimulationOfAmounts(a, p,
         BN_ofNumber(FFloor(FMul(FMax(F0, a.amountAInput), p.powA))),
         BN_ofNumber(FFloor(FMul(FMax(F0, a.amountBInput), p.powB))),
         priceToSqrtPriceX64At(FDiv(a.currentPriceA, a.priceB), p.scale))

\* The results runSimulation can return, or the error it raises.
runSimulation(a) ==
  UNION { runSimulationAt(a, [powA |-> pa, powB |-> pb, scale |-> s]) :
            pa \in Math_pow(FFromInt(10), a.decimalsA),
            pb \in Math_pow(FFromInt(10), a.decimalsB),
            s \in Math_pow(FFromInt(10), a.decimalsA - a.decimalsB) }

----------------------------------------------------------------------------
(* The position health score.                                               *)
isInRangeOf(currentPrice, priceLower, priceUpper) ==
  FGe(currentPrice, priceLower) /\ FLe(currentPrice, priceUpper)

distanceToEdgeOf(currentPrice, priceLower, priceUpper) ==
  IF isInRangeOf(currentPrice, priceLower, priceUpper)
  THEN FMin(FDiv(FSub(currentPrice, priceLower), currentPrice),
            FDiv(FSub(priceUpper, currentPrice), currentPrice))
  ELSE F0

\* 1. In-range score (0-30 points)
inRangeScoreOf(currentPrice, priceLower, priceUpper) ==
  IF isInRangeOf(currentPrice, priceLower, priceUpper)
  THEN FMin(FFromInt(30),
            FAdd(FFromInt(15),
                 FMul(distanceToEdgeOf(currentPrice, priceLower, priceUpper),
                      FFromInt(150))))
  ELSE F0

\* 2. IL score (0-25 points): IL of 0% = 25 points, IL of -50% = 0 points
ilScoreOf(ilPercentage) == FMax(F0, FAdd(FFromInt(25), FDiv(ilPercentage, F2)))

netReturnOf(ilPercentage, feeAPR, daysInPosition) ==
  FAdd(ilPercentage, FMul(FDiv(feeAPR, FFromInt(365)), daysInPosition))

\* 3. Fee earning score (0-25 points)
feeEarningScoreOf(netReturn) ==
  IF FGe(netReturn, F0) THEN FFromInt(25)
  ELSE FMax(F0, FAdd(FFromInt(25), netReturn))

\* 4. Capital efficiency score (0-20 points)
capitalEfficiencyScoreOf(currentPrice, priceLower, priceUpper) ==
  FMin(FFromInt(20),
       FMul(FDiv(F1, FDiv(FSub(priceUpper, priceLower), currentPrice)), F2))

healthStatusOf(score) ==
  IF FGe(score, FFromInt(80)) THEN "excellent"
  ELSE IF FGe(score, FFromInt(60)) THEN "good"
  ELSE IF FGe(score, FFromInt(40)) THEN "fair"
  ELSE IF FGe(score, FFromInt(20)) THEN "poor"
  ELSE "critical"

healthSummaryOf(isInRange, ilPercentage, feeAPR) ==
  IF ~isInRange
  THEN "Position is out of range and not earning fees. Consider rebalancing."
  ELSE IF FLt(ilPercentage, FFromInt(-20))
  THEN "High impermanent loss. Monitor closely and consider rebalancing if IL continues."
  ELSE IF FGt(feeAPR, FAbs(FMul(ilPercentage, FFromInt(12))))
  THEN "Position is healthy. Fee earnings should outpace IL over time."
  ELSE "Position is active. Keep monitoring price movements."

PositionHealth(score, inRangeScore, ilScore, feeEarningScore, capitalEfficiencyScore, summary) ==
  [score |-> score,
   status |-> healthStatusOf(score),
   factors |-> [inRangeScore |-> Math_round(inRangeScore),
                ilScore |-> Math_round(ilScore),
                feeEarningScore |-> Math_round(feeEarningScore),
                capitalEfficiencyScore |-> Math_round(capitalEfficiencyScore)],
   summary |-> summary]

PositionHealthOfScores(inRangeScore, ilScore, feeEarningScore, capitalEfficiencyScore, summary) ==
  PositionHealth(
    Math_round(FAdd(FAdd(FAdd(inRangeScore, ilScore), feeEarningScore),
                    capitalEfficiencyScore)),
    inRangeScore, ilScore, feeEarningScore, capitalEfficiencyScore, summary)

calculatePositionHealth(currentPrice, priceLower, priceUpper, ilPercentage, feeAPR, daysInPosition) ==
  PositionHealthOfScores(
    inRangeScoreOf(currentPrice, priceLower, priceUpper),
    ilScoreOf(ilPercentage),
    feeEarningScoreOf(netReturnOf(ilPercentage, feeAPR, daysInPosition)),
    capitalEfficiencyScoreOf(currentPrice, priceLower, priceUpper),
    healthSummaryOf(isInRangeOf(currentPrice, priceLower, priceUpper),
                    ilPercentage, feeAPR))

----------------
(* The calls.  pc is "call" before the function is applied to `in` and       *)
(* "done" after; `out` is then what it returned.                             *)

NoResult == [ok |-> FALSE, error |-> "not called"]

\* The decimal literals k/10 and k/2.
Tenth(k) == FDec(k, 10)
Half(k) == FDec(k, 2)

(* calculateCLMM_IL on the ranges [1 - w/10, 1 + w/10], entry and target     *)
(* prices in tenths and deposits in halves of a token, or of token B        *)
(* without bound.                                                           *)
MaxWidth == 2
MinTarget == 6
MaxTarget == 15
MaxHalves == 2

ILInputs ==
  { [entryPrice |-> e, targetPrice |-> t,
     priceLower |-> range[1], priceUpper |-> range[2],
     amountAInitial |-> a, amountBInitial |-> b] :
       range \in { <<Tenth(10 - w), Tenth(10 + w)>> : w \in 1..MaxWidth },
       e \in { Tenth(k) : k \in 8..12 },
       t \in { Tenth(k) : k \in MinTarget..MaxTarget },
       a \in { Half(k) : k \in 0..MaxHalves },
       b \in { Half(k) : k \in 0..MaxHalves } \cup { FInf(1) } }

InitIL == pc = "call" /\ in \in ILInputs /\ out = NoResult

CallIL ==
  /\ pc = "call"
  /\ out' = calculateCLMM_IL(in.entryPrice, in.targetPrice, in.priceLower,
                             in.priceUpper, in.amountAInitial, in.amountBInitial)
  /\ pc' = "done"
  /\ UNCHANGED in

SpecIL == InitIL /\ [][CallIL]_vars

(* C1: in calculateCLMM_IL with entry price 1, the range [0.9, 1.1], a     *)
(* deposit of 0.5 and 0.5 and the target price 1.5, the direction is        *)
(* 'above', finalAmountB is 0 and ilPercentage is strictly below the        *)
(* full-range loss calculateV2_IL(1.5), about -2.02.                        *)
C1_Scenario ==
  in = [entryPrice |-> Tenth(10), targetPrice |-> Tenth(15),
        priceLower |-> Tenth(9), priceUpper |-> Tenth(11),
        amountAInitial |-> Half(1), amountBInitial |-> Half(1)]

C1_NarrowRangeAmplifiesLoss ==
  (pc = "done" /\ C1_Scenario) =>
    /\ out.ok
    /\ out.outOfRangeDirection = "above"
    /\ out.finalAmountB = F0
    /\ FLt(out.ilPercentage, calculateV2_IL(Tenth(15)))

(* C2: for priceLower < entryPrice < priceUpper and non-negative amounts,   *)
(* calculateCLMM_IL with targetPrice = entryPrice returns ilPercentage      *)
(* exactly 0, and valuePool equal to valueHold.                             *)
C2_AtEntry ==
  /\ pc = "done"
  /\ FLt(in.priceLower, in.entryPrice)
  /\ FLt(in.entryPrice, in.priceUpper)
  /\ in.targetPrice = in.entryPrice

C2_ZeroAtEntry ==
  C2_AtEntry =>
    out.ok /\ FIsZero(out.ilPercentage) /\ out.valuePool = out.valueHold

\* ... reached with a position of positive liquidity holding both tokens,
\* whose amounts are not the deposit's.
C2_Witness ==
  /\ C2_AtEntry
  /\ out.ok
  /\ FGt(out.finalAmountA, F0) /\ FGt(out.finalAmountB, F0)
  /\ out.initialAmountA # in.amountAInitial
  /\ FGt(out.valueHold, F0)

(* C16: when the liquidity of the initial amounts at entryPrice is not    *)
(* above 0 or not finite, calculateCLMM_IL raises no error and returns      *)
(* ilPercentage 0 and valuePool equal to valueHold.                         *)
C16_Liquidity ==
  getLiquidityFromAmounts(FSqrt(in.entryPrice), FSqrt(in.priceLower),
                          FSqrt(in.priceUpper), in.amountAInitial, in.amountBInitial)

C16_NoLiquidity ==
  pc = "done" /\ (FLe(C16_Liquidity, F0) \/ ~FIsFinite(C16_Liquidity))

C16_ZeroILWithoutLiquidity ==
  C16_NoLiquidity =>
    out.ok /\ out.ilPercentage = F0 /\ out.valuePool = out.valueHold

\* ... reached with an entry inside the range, token B alone deposited and
\* a target price that left the range.
C16_Witness ==
  /\ C16_NoLiquidity
  /\ FLt(in.priceLower, in.entryPrice) /\ FLt(in.entryPrice, in.priceUpper)
  /\ in.amountAInitial = F0 /\ FGt(in.amountBInitial, F0)
  /\ FGt(in.targetPrice, in.priceUpper)
  /\ FGt(out.valueHold, F0)

(* getAmountsForLiquidity, and getLiquidityFromAmounts applied to what it   *)
(* returns, on square-root prices in tenths and liquidities in thirds,      *)
(* besides Infinity.                                                        *)
MaxSqrt == 7
MaxThirds == 4

AmountInputs ==
  { [sqrtPrice |-> p, sqrtPriceLower |-> l,
     sqrtPriceUpper |-> u, liquidity |-> x] :
       p \in { Tenth(k) : k \in 1..MaxSqrt },
       l \in { Tenth(k) : k \in 1..5 }, u \in { Tenth(k) : k \in 2..6 },
       x \in { FDec(k, 3) : k \in 0..MaxThirds } \cup { FInf(1) } }

InitAmounts ==
  /\ pc = "call"
  /\ in \in { i \in AmountInputs : FLt(i.sqrtPriceLower, i.sqrtPriceUpper) }
  /\ out = NoResult

AmountsAndBack(amounts) ==
  [ok |-> TRUE,
   amount0 |-> amounts.amount0,
   amount1 |-> amounts.amount1,
   liquidity |-> getLiquidityFromAmounts(in.sqrtPrice, in.sqrtPriceLower,
                                         in.sqrtPriceUpper,
                                         amounts.amount0, amounts.amount1)]

CallAmounts ==
  /\ pc = "call"
  /\ out' = AmountsAndBack(getAmountsForLiquidity(in.sqrtPrice, in.sqrtPriceLower,
                                                  in.sqrtPriceUpper, in.liquidity))
  /\ pc' = "done"
  /\ UNCHANGED in

SpecAmounts == InitAmounts /\ [][CallAmounts]_vars

C4_InRange ==
  /\ pc = "done"
  /\ FLt(in.sqrtPriceLower, in.sqrtPrice)
  /\ FLt(in.sqrtPrice, in.sqrtPriceUpper)
  /\ FIsFinite(in.liquidity) /\ FGt(in.liquidity, F0)

C4_LiquidityInverse ==
  C4_InRange =>
    /\ FIsFinite(out.liquidity)
    /\ FLe(FAbs(FSub(out.liquidity, in.liquidity)),
           FMul(in.liquidity, FPow2(-50)))

\* ... reached where rounding shows: the liquidity returned is not L itself.
C4_Witness ==
  /\ C4_InRange
  /\ FGt(out.amount0, F0) /\ FGt(out.amount1, F0)
  /\ out.liquidity # in.liquidity

(* C20: for sqrtPrice <= sqrtPriceLower and for sqrtPrice >= sqrtPriceUpper, *)
(* and a liquidity L > 0, getLiquidityFromAmounts of the amounts             *)
(* getAmountsForLiquidity returns for L is L (here: within L * 2^-50).       *)
C20_OutOfRange ==
  /\ pc = "done"
  /\ FLe(in.sqrtPrice, in.sqrtPriceLower) \/ FGe(in.sqrtPrice, in.sqrtPriceUpper)
  /\ FIsFinite(in.liquidity) /\ FGt(in.liquidity, F0)

C20_OutOfRangeInverse ==
  C20_OutOfRange =>
    /\ FIsFinite(out.liquidity)
    /\ FLe(FAbs(FSub(out.liquidity, in.liquidity)),
           FMul(in.liquidity, FPow2(-50)))

(* tickToSqrtPriceX64 on two ticks t1 < t2 among the powers of two up to    *)
(* 2^MaxTickBit, their predecessors, and the negatives of both.             *)
MaxTickBit == 12

TickSet ==
  UNION { {Pow2(i), Pow2(i) - 1, -Pow2(i), 1 - Pow2(i)} : i \in 0..MaxTickBit }

InitTick ==
  /\ pc = "call"
  /\ in \in { [t1 |-> a, t2 |-> b] : a \in TickSet, b \in TickSet }
  /\ in.t1 < in.t2
  /\ out = NoResult

CallTick ==
  /\ pc = "call"
  /\ out' = [ok |-> TRUE,
             s1 |-> tickToSqrtPriceX64(in.t1),
             s2 |-> tickToSqrtPriceX64(in.t2)]
  /\ pc' = "done"
  /\ UNCHANGED in

SpecTick == InitTick /\ [][CallTick]_vars

(* C5: tickToSqrtPriceX64 is strictly increasing: for ticks t1 < t2,        *)
(* consecutive ticks across a power of two and negative ticks included,     *)
(* tickToSqrtPriceX64(t1) < tickToSqrtPriceX64(t2).                         *)
C5_StrictlyIncreasing == pc = "done" => BLt(out.s1, out.s2)

(* C6: tickToSqrtPriceX64(tick) is sqrt(1.0001^tick) * 2^64 up to           *)
(* fixed-point rounding (here 2^32 units, 2^-32 of the value): tick 0       *)
(* gives 2^64; tick 1 gives sqrt(1.0001) * 2^64; the value for 2^(i+1) is   *)
(* the square of the value for 2^i shifted right by 64; a negative tick     *)
(* gives 2^128 divided by the value for its absolute value.                 *)
C6_Tolerance == BShl(BOne, 32)

C6_Near(a, b) ==
  IF BLe(a, b) THEN BLe(BSub(b, a), C6_Tolerance)
  ELSE BLe(BSub(a, b), C6_Tolerance)

\* s is sqrt(1.0001) * 2^64 within the tolerance:
\* (s - tol)^2 * 10000 <= 10001 * 2^128 <= (s + tol)^2 * 10000.
C6_IsSqrtOfBase(s) ==
  LET lo  == BSub(s, C6_Tolerance)
      hi  == BAdd(s, C6_Tolerance)
      rhs == BMul(BFromNat(10001), BShl(BOne, 128))
  IN  /\ BLe(BMul(BMul(lo, lo), BFromNat(10000)), rhs)
      /\ BLe(rhs, BMul(BMul(hi, hi), BFromNat(10000)))

C6_IsPowerOfTwo(t) == \E i \in 0..MaxTickBit : t = Pow2(i)

C6_FixedPointSqrtPrice ==
  pc = "done" =>
    /\ in.t1 = 0 => out.s1 = Q64
    /\ in.t1 = 1 => C6_IsSqrtOfBase(out.s1)
    /\ (C6_IsPowerOfTwo(in.t1) /\ in.t2 = 2 * in.t1) =>
         C6_Near(out.s2, BShr(BMul(out.s1, out.s1), 64))
    /\ (in.t1 < 0 /\ in.t2 = -in.t1) =>
         out.s1 = BDiv(BShl(BOne, 128), out.s2)

(* alignTickToSpacing, and alignTickToSpacing applied to what it returns,   *)
(* on the ticks -MaxAlignTick .. MaxAlignTick and on two ticks of the       *)
(* magnitude pools use, with the spacings 1 .. MaxSpacing and 10, 60, 200.  *)
MaxAlignTick == 12
MaxSpacing == 4

AlignInputs ==
  { [tick |-> t, tickSpacing |-> sp, roundUp |-> up] :
      t \in (-MaxAlignTick..MaxAlignTick) \cup {-443636, 443636},
      sp \in (1..MaxSpacing) \cup {10, 60, 200},
      up \in BOOLEAN }

InitAlign == pc = "call" /\ in \in AlignInputs /\ out = NoResult

AlignTwice(once) ==
  [ok |-> TRUE,
   once |-> once,
   twice |-> alignTickToSpacing(once, FFromInt(in.tickSpacing), in.roundUp)]

CallAlign ==
  /\ pc = "call"
  /\ out' = AlignTwice(alignTickToSpacing(FFromInt(in.tick), FFromInt(in.tickSpacing),
                                          in.roundUp))
  /\ pc' = "done"
  /\ UNCHANGED in

SpecAlign == InitAlign /\ [][CallAlign]_vars

(* C7: for every integer tick and positive spacing, alignTickToSpacing      *)
(* returns a multiple of the spacing: the greatest one <= tick when         *)
(* roundUp is false, the least one >= tick when it is true; applied to its  *)
(* own result it returns that result.                                       *)
C7_AlignToSpacing ==
  pc = "done" =>
    LET r == FToInt(out.once)
    IN  /\ out.once = FFromInt(r)
        /\ r % in.tickSpacing = 0
        /\ ~in.roundUp => (r <= in.tick /\ in.tick < r + in.tickSpacing)
        /\ in.roundUp => (r - in.tickSpacing < in.tick /\ in.tick <= r)
        /\ out.twice = out.once

\* ... reached on a negative tick that is no multiple of the spacing.
C7_Witness ==
  /\ pc = "done"
  /\ in.tick < 0
  /\ in.tick % in.tickSpacing # 0
  /\ ~in.roundUp
  /\ FToInt(out.once) < in.tick

(* priceToTick applied to tickToPrice(tick) on the ticks                    *)
(* -MaxSmallTick .. MaxSmallTick, the powers of two up to 2^MaxPriceBit     *)
(* and their negatives, and the two ends of the pools' tick range.          *)
MaxSmallTick == 24
MaxPriceBit == 18

RoundTripTicks ==
  (-MaxSmallTick..MaxSmallTick)
    \cup UNION { {Pow2(i), -Pow2(i)} : i \in 0..MaxPriceBit }
    \cup {-443636, 443636}

InitRoundTrip ==
  /\ pc = "call"
  /\ in \in { [tick |-> t] : t \in RoundTripTicks }
  /\ out = NoResult

CallRoundTrip ==
  /\ pc = "call"
  /\ \E price \in tickToPrice(in.tick) :
       \E t \in priceToTick(price) :
         out' = [ok |-> TRUE, price |-> price, tick |-> t]
  /\ pc' = "done"
  /\ UNCHANGED in

SpecRoundTrip == InitRoundTrip /\ [][CallRoundTrip]_vars

(* C8: for every tick of the supported magnitude,                           *)
(* priceToTick(tickToPrice(tick)) is an integer within 1 of the tick.       *)
C8_RoundTripWithinOne ==
  pc = "done" =>
    /\ out.tick = FFromInt(FToInt(out.tick))
    /\ Abs(FToInt(out.tick) - in.tick) <= 1

\* ... reached where the round trip loses a tick, at the largest magnitude.
C8_Witness ==
  /\ pc = "done"
  /\ Abs(in.tick) > MaxSmallTick
  /\ FToInt(out.tick) # in.tick

(* simulateRebalance at the current price 1 with a position of 1000 USD    *)
(* and the fee rate 0.3%: three old ranges (in range, price below, price    *)
(* above), four new ranges (two narrower, the old one, one that excludes    *)
(* the price), volumes 0 and 10^4 .. 10^(2 + 2 * MaxVolumeStep), a pool     *)
(* TVL of 0 or 10^6, and a gas cost of -1, 0, the default or                *)
(* 1 .. 10^MaxGasExp SUI.                                                   *)
MaxVolumeStep == 2
MaxGasExp == 2

Hundredth(k) == FDec(k, 100)

Pow10(n) == FFromInt(10 ^ n)

RebalanceInputs ==
  { [currentPrice |-> F1,
     oldPriceLower |-> old[1], oldPriceUpper |-> old[2],
     newPriceLower |-> new[1], newPriceUpper |-> new[2],
     positionValueUSD |-> FFromInt(1000),
     dailyVolume |-> v,
     feeRate |-> FDec(3, 1000),
     totalPoolTVL |-> tvl,
     gasCostSUI |-> g,
     suiPriceUSD |-> DefaultSuiPriceUSD] :
      old \in {<<Hundredth(80), Hundredth(120)>>, <<Hundredth(110), Hundredth(130)>>,
               <<Hundredth(50), Hundredth(90)>>},
      new \in {<<Hundredth(90), Hundredth(110)>>, <<Hundredth(95), Hundredth(105)>>,
               <<Hundredth(80), Hundredth(120)>>, <<Hundredth(105), Hundredth(120)>>},
      v \in {F0} \cup { Pow10(2 + 2 * k) : k \in 1..MaxVolumeStep },
      tvl \in {F0, Pow10(6)},
      g \in {FFromInt(-1), F0, DefaultGasCostSUI} \cup { Pow10(k) : k \in 0..MaxGasExp } }

InitRebalance == pc = "call" /\ in \in RebalanceInputs /\ out = NoResult

CallRebalance ==
  /\ pc = "call"
  /\ \E scenario \in simulateRebalance(in.currentPrice, in.oldPriceLower, in.oldPriceUpper, in.newPriceLower, in.newPriceUpper, in.positionValueUSD, in.dailyVolume, in.feeRate, in.totalPoolTVL, in.gasCostSUI, in.suiPriceUSD) :
       out' = [ok |-> TRUE] @@ scenario
  /\ pc' = "done"
  /\ UNCHANGED in

SpecRebalance == InitRebalance /\ [][CallRebalance]_vars

(* C9: simulateRebalance applies its decision table in order: current       *)
(* price outside the new range gives 'not-recommended'; else current price  *)
(* outside the old range gives 'recommended'; else breakEvenDays < 7 gives  *)
(* 'recommended'; else breakEvenDays > 30 gives 'not-recommended'; else     *)
(* 'neutral'.  So an old range that excludes the price and a new one that   *)
(* includes it give 'recommended' whatever the gas cost, volume and TVL.    *)
C9_InNewRange ==
  FGe(in.currentPrice, in.newPriceLower) /\ FLe(in.currentPrice, in.newPriceUpper)

C9_OutOfOldRange ==
  FLt(in.currentPrice, in.oldPriceLower) \/ FGt(in.currentPrice, in.oldPriceUpper)

C9_DecisionTable ==
  pc = "done" =>
    /\ out.recommendation =
         IF ~C9_InNewRange THEN "not-recommended"
         ELSE IF C9_OutOfOldRange THEN "recommended"
         ELSE IF FLt(out.breakEvenDays, FFromInt(7)) THEN "recommended"
         ELSE IF FGt(out.breakEvenDays, FFromInt(30)) THEN "not-recommended"
         ELSE "neutral"
    /\ (C9_OutOfOldRange /\ C9_InNewRange) => out.recommendation = "recommended"

\* ... reached back in range with a gas cost that would take over 30 days
\* to recover.
C9_Witness ==
  /\ pc = "done"
  /\ C9_OutOfOldRange /\ C9_InNewRange
  /\ FGt(out.breakEvenDays, FFromInt(30))
  /\ out.breakEvenDays.k = "fin"
  /\ out.recommendation = "recommended"

(* C10: the gas cost of simulateRebalance is gasCostSUI * suiPriceUSD * 2,  *)
(* and breakEvenDays is that cost divided by (new daily LP fees - old daily *)
(* LP fees) when the difference is above 0, and Infinity when it is 0 or    *)
(* below.                                                                   *)
C10_DailyFees(priceLower, priceUpper) ==
  { apy.dailyFees :
      apy \in calculateCLMMAPY(in.dailyVolume, in.feeRate, in.positionValueUSD,
                in.totalPoolTVL, FDiv(FSub(priceUpper, priceLower), in.currentPrice)) }

C10_BreakEven ==
  pc = "done" =>
    /\ out.gasCostUSD = FMul(FMul(in.gasCostSUI, in.suiPriceUSD), F2)
    /\ \A old \in C10_DailyFees(in.oldPriceLower, in.oldPriceUpper) :
         \A new \in C10_DailyFees(in.newPriceLower, in.newPriceUpper) :
           IF FGt(new, old)
           THEN out.breakEvenDays = FDiv(out.gasCostUSD, FSub(new, old))
           ELSE out.breakEvenDays = FInf(1)

\* ... reached with a positive difference and a positive gas cost ...
C10_Witness ==
  /\ pc = "done"
  /\ FGt(out.gasCostUSD, F0)
  /\ out.breakEvenDays.k = "fin"
  /\ FGt(out.breakEvenDays, FFromInt(7))

\* ... and with a negative difference.
C10_WitnessNoGain ==
  /\ pc = "done"
  /\ \E old \in C10_DailyFees(in.oldPriceLower, in.oldPriceUpper) :
       \E new \in C10_DailyFees(in.newPriceLower, in.newPriceUpper) : FLt(new, old)
  /\ out.breakEvenDays = FInf(1)

(* calculateCLMMAPY on the volumes 0 and 10^3 .. 10^MaxVolumeExp, two fee   *)
(* rates, positions and pools with a value below, at and above 0, and the   *)
(* range widths 0 .. MaxWidthTenths tenths, 0.005 and -1.                   *)
MaxVolumeExp == 5
MaxWidthTenths == 3

APYInputs ==
  { [dailyVolume |-> v, feeRate |-> f, positionValueUSD |-> p,
     totalPoolTVL |-> tvl, priceRangeWidth |-> w] :
      v \in {F0} \cup { Pow10(k) : k \in 3..MaxVolumeExp },
      f \in {FDec(3, 1000), FDec(1, 10000)},
      p \in {FFromInt(-1), F0, FFromInt(1000), FInf(-1)},
      tvl \in {FFromInt(-1), F0, Pow10(3), Pow10(6)},
      w \in { Tenth(k) : k \in 0..MaxWidthTenths } \cup {FDec(5, 1000), FFromInt(-1)} }

InitAPY == pc = "call" /\ in \in APYInputs /\ out = NoResult

CallAPY ==
  /\ pc = "call"
  /\ \E result \in calculateCLMMAPY(in.dailyVolume, in.feeRate, in.positionValueUSD,
                                     in.totalPoolTVL, in.priceRangeWidth) :
       out' = [ok |-> TRUE] @@ result
  /\ pc' = "done"
  /\ UNCHANGED in

SpecAPY == InitAPY /\ [][CallAPY]_vars

(* C11: calculateCLMMAPY(10000, 0.003, 1000, 1000000, 0.1) yields           *)
(* capitalEfficiency 10 and dailyFees 30, and the apy is the compounding    *)
(* of dailyFees / positionValueUSD over 365 days.                           *)
C11_Scenario ==
  /\ pc = "done"
  /\ in = [dailyVolume |-> Pow10(4), feeRate |-> FDec(3, 1000),
           positionValueUSD |-> FFromInt(1000), totalPoolTVL |-> Pow10(6),
           priceRangeWidth |-> Tenth(1)]

C11_Compounded ==
  \E pow \in Math_pow(FAdd(F1, FDiv(out.dailyFees, in.positionValueUSD)), 365) :
    out.apy = FMul(FSub(pow, F1), F100)

C11_DailyFeesThirty ==
  C11_Scenario =>
    /\ out.capitalEfficiency = FFromInt(10)
    /\ out.dailyFees = FFromInt(30)
    /\ C11_Compounded

(* C11, amended: the same call yields capitalEfficiency 10, the LP's share  *)
(* dailyFees = 10000 * 0.003 * min(1000/1e6 * 10, 1) * 0.80 = 0.24, the     *)
(* protocol's share protocolFee = 0.06, and the apy, about 9.154, is the    *)
(* compounding of dailyFees / positionValueUSD over 365 days.               *)
C11_DailyFeesOfLPShare ==
  C11_Scenario =>
    /\ out.capitalEfficiency = FFromInt(10)
    /\ out.dailyFees = FDec(24, 100)
    /\ out.protocolFee = FDec(6, 100)
    /\ C11_Compounded
    /\ FGt(out.apy, FDec(9153, 1000)) /\ FLt(out.apy, FDec(9155, 1000))

\* ... reached by the call of the scenario.
C11_Witness == C11_Scenario /\ out.ok /\ FLt(out.dailyFees, F1)

(* C12: with positionValueUSD <= 0 or totalPoolTVL <= 0, calculateCLMMAPY   *)
(* raises no error and returns apy, dailyFees, capitalEfficiency and        *)
(* protocolFee all 0.                                                       *)
C12_Degenerate ==
  /\ pc = "done"
  /\ FLe(in.positionValueUSD, F0) \/ FLe(in.totalPoolTVL, F0)

C12_AllZero ==
  C12_Degenerate =>
    /\ out.ok
    /\ out.apy = F0 /\ out.dailyFees = F0
    /\ out.capitalEfficiency = F0 /\ out.protocolFee = F0

(* C12, amended: with positionValueUSD <= 0 or totalPoolTVL <= 0,           *)
(* calculateCLMMAPY raises no error and returns apy, dailyFees and          *)
(* protocolFee 0 and capitalEfficiency 1.                                   *)
C12_ZeroFeesUnitEfficiency ==
  C12_Degenerate =>
    /\ out.ok
    /\ out.apy = F0 /\ out.dailyFees = F0 /\ out.protocolFee = F0
    /\ out.capitalEfficiency = F1

\* ... reached with a pool without value, a position of 1000 USD, a
\* positive volume and a narrow range.
C12_Witness ==
  /\ C12_Degenerate
  /\ FGt(in.positionValueUSD, F0)
  /\ FGt(in.dailyVolume, F0)
  /\ FGt(in.priceRangeWidth, F0) /\ FLt(in.priceRangeWidth, F1)
  /\ out.capitalEfficiency = F1

(* calculatePositionHealth after 30 days on the ranges                      *)
(* [1 - w/10, 1 + w/10], prices in tenths, a loss or gain in tens of        *)
(* percent and a fee APR in steps of 50 percent.                            *)
MaxHealthWidth == 3
MaxLossTens == 6
MaxGainTens == 3
MaxAprSteps == 2

HealthInputs ==
  { [currentPrice |-> c,
     priceLower |-> range[1], priceUpper |-> range[2],
     ilPercentage |-> il,
     feeAPR |-> apr,
     daysInPosition |-> FFromInt(30)] :
      c \in { Tenth(k) : k \in 6..14 },
      range \in { <<Tenth(10 - w), Tenth(10 + w)>> : w \in 1..MaxHealthWidth },
      il \in { FFromInt(10 * k) : k \in -MaxLossTens..MaxGainTens },
      apr \in { FFromInt(50 * k) : k \in 0..MaxAprSteps } }

InitHealth == pc = "call" /\ in \in HealthInputs /\ out = NoResult

CallHealth ==
  /\ pc = "call"
  /\ out' = [ok |-> TRUE] @@
             calculatePositionHealth(in.currentPrice, in.priceLower, in.priceUpper,
                                     in.ilPercentage, in.feeAPR, in.daysInPosition)
  /\ pc' = "done"
  /\ UNCHANGED in

SpecHealth == InitHealth /\ [][CallHealth]_vars

(* C13: for priceLower < priceUpper, currentPrice > 0, any ilPercentage     *)
(* and feeAPR >= 0, calculatePositionHealth returns a score in 0..100,      *)
(* inRangeScore in 0..30, ilScore in 0..25, feeEarningScore in 0..25 and    *)
(* capitalEfficiencyScore in 0..20.                                         *)
C13_Within(x, cap) == FGe(x, F0) /\ FLe(x, FFromInt(cap))

C13_ScoresWithinCaps ==
  (/\ pc = "done"
   /\ FLt(in.priceLower, in.priceUpper)
   /\ FGt(in.currentPrice, F0)
   /\ FGe(in.feeAPR, F0)) =>
    /\ C13_Within(out.score, 100)
    /\ C13_Within(out.factors.inRangeScore, 30)
    /\ C13_Within(out.factors.ilScore, 25)
    /\ C13_Within(out.factors.feeEarningScore, 25)
    /\ C13_Within(out.factors.capitalEfficiencyScore, 20)

(* calculateCLMM_IL on prices that are -1, 0 or 0.9 .. (9 + MaxPriceTenths) *)
(* tenths, in every combination of entry, target, lower and upper price,    *)
(* with a deposit of 0.5 of each token.                                     *)
MaxPriceTenths == 2

AnyPrice == {FFromInt(-1), F0} \cup { Tenth(9 + k) : k \in 0..MaxPriceTenths }

ILPriceInputs ==
  { [entryPrice |-> e, targetPrice |-> t, priceLower |-> l, priceUpper |-> u,
     amountAInitial |-> Half(1), amountBInitial |-> Half(1)] :
       e \in AnyPrice, t \in AnyPrice, l \in AnyPrice, u \in AnyPrice }

InitILPrices == pc = "call" /\ in \in ILPriceInputs /\ out = NoResult

CallILPrices ==
  /\ pc = "call"
  /\ out' = calculateCLMM_IL(in.entryPrice, in.targetPrice, in.priceLower,
                             in.priceUpper, in.amountAInitial, in.amountBInitial)
  /\ pc' = "done"
  /\ UNCHANGED in

SpecILPrices == InitILPrices /\ [][CallILPrices]_vars

(* C15: calculateCLMM_IL raises an error, and returns no result, whenever   *)
(* priceLower >= priceUpper or one of entryPrice, targetPrice, priceLower,  *)
(* priceUpper is not above 0.                                               *)
C15_InvalidPrices ==
  \/ FGe(in.priceLower, in.priceUpper)
  \/ FLe(in.entryPrice, F0) \/ FLe(in.targetPrice, F0)
  \/ FLe(in.priceLower, F0) \/ FLe(in.priceUpper, F0)

C15_InvalidPricesRaise ==
  (pc = "done" /\ C15_InvalidPrices) => (~out.ok /\ DOMAIN out = {"ok", "error"})

(* The converters on invalid and valid input: priceToTick and               *)
(* priceToSqrtPriceX64 on the prices -1, 0, Infinity and 1/2 ..             *)
(* MaxConvertHalves/2, with 6 or 9 decimals for either token, and           *)
(* alignTickToSpacing on the ticks -MaxConvertTick .. MaxConvertTick with   *)
(* the spacings -MaxBadSpacing .. 2.                                        *)
MaxConvertHalves == 4
MaxConvertTick == 6
MaxBadSpacing == 2

ConvertPrices ==
  {FFromInt(-1), FZero, FInf(1)} \cup { Half(k) : k \in 1..MaxConvertHalves }

ConvertInputs ==
  { [fn |-> "priceToTick", price |-> p] : p \in ConvertPrices }
  \cup
  { [fn |-> "priceToSqrtPriceX64", price |-> p, decimalsA |-> a, decimalsB |-> b] :
      p \in ConvertPrices, a \in {6, 9}, b \in {6, 9} }
  \cup
  { [fn |-> "alignTickToSpacing", tick |-> t, tickSpacing |-> sp, roundUp |-> up] :
      t \in -MaxConvertTick..MaxConvertTick, sp \in -MaxBadSpacing..2,
      up \in BOOLEAN }

InitConvert == pc = "call" /\ in \in ConvertInputs /\ out = NoResult

CallPriceToTick ==
  /\ pc = "call"
  /\ in.fn = "priceToTick"
  /\ \E t \in priceToTick(in.price) : out' = [ok |-> TRUE, value |-> t]
  /\ pc' = "done"
  /\ UNCHANGED in

CallPriceToSqrtPriceX64 ==
  /\ pc = "call"
  /\ in.fn = "priceToSqrtPriceX64"
  /\ out' \in priceToSqrtPriceX64(in.price, in.decimalsA, in.decimalsB)
  /\ pc' = "done"
  /\ UNCHANGED in

CallAlignTickToSpacing ==
  /\ pc = "call"
  /\ in.fn = "alignTickToSpacing"
  /\ out' = [ok |-> TRUE,
             value |-> alignTickToSpacing(FFromInt(in.tick), FFromInt(in.tickSpacing),
                                          in.roundUp)]
  /\ pc' = "done"
  /\ UNCHANGED in

NextConvert == CallPriceToTick \/ CallPriceToSqrtPriceX64 \/ CallAlignTickToSpacing

SpecConvert == InitConvert /\ [][NextConvert]_vars

(* C17: the converters reject invalid input with an error instead of        *)
(* returning a value: priceToTick and priceToSqrtPriceX64 when price <= 0,  *)
(* alignTickToSpacing when tickSpacing <= 0.                                *)
C17_InvalidInput ==
  \/ in.fn \in {"priceToTick", "priceToSqrtPriceX64"} /\ FLe(in.price, FZero)
  \/ in.fn = "alignTickToSpacing" /\ in.tickSpacing <= 0

C17_InvalidInputRejected == (pc = "done" /\ C17_InvalidInput) => ~out.ok

(* getLiquidityFromAmounts on square-root prices in tenths around the range *)
(* [0.3, 0.5] or wider and amounts in halves, negative ones included; and    *)
(* estimateLiquidityFromAmounts on the ticks of the range, prices at ticks   *)
(* below, in and above it, and amounts in powers of a thousand.              *)
MaxLiquiditySqrt == 7
MaxNegativeHalves == 1
MaxAmountHalves == 2
MaxAmountExp == 3

LiquidityTicks == {-2000, -1000, -500, 0, 500, 1000, 1500, 3000}

Thousands(k) == IF k = 0 THEN BZero ELSE BFromNat(1000 ^ (k - 1))

LiquidityInputs ==
  { [fn |-> "getLiquidityFromAmounts", sqrtPrice |-> p,
     sqrtPriceLower |-> l, sqrtPriceUpper |-> u, amount0 |-> a, amount1 |-> b] :
       p \in { Tenth(k) : k \in 1..MaxLiquiditySqrt },
       l \in { Tenth(k) : k \in 2..3 }, u \in { Tenth(k) : k \in 5..6 },
       a \in { Half(k) : k \in (-MaxNegativeHalves)..MaxAmountHalves },
       b \in { Half(k) : k \in (-MaxNegativeHalves)..MaxAmountHalves } }
  \cup
  { [fn |-> "estimateLiquidityFromAmounts", currentSqrtPriceX64 |-> c,
     tickLower |-> l, tickUpper |-> u, amountA |-> a, amountB |-> b] :
       c \in { tickToSqrtPriceX64(t) : t \in LiquidityTicks },
       l \in {-1000, 0}, u \in {1000, 2000},
       a \in { Thousands(k) : k \in 0..MaxAmountExp },
       b \in { Thousands(k) : k \in 0..MaxAmountExp } }

InitLiquidity ==
  /\ pc = "call"
  /\ in \in LiquidityInputs
  /\ out = NoResult

CallGetLiquidityFromAmounts ==
  /\ pc = "call"
  /\ in.fn = "getLiquidityFromAmounts"
  /\ out' = [ok |-> TRUE,
             liquidity |-> getLiquidityFromAmounts(in.sqrtPrice, in.sqrtPriceLower,
                                                   in.sqrtPriceUpper,
                                                   in.amount0, in.amount1)]
  /\ pc' = "done"
  /\ UNCHANGED in

CallEstimateLiquidityFromAmounts ==
  /\ pc = "call"
  /\ in.fn = "estimateLiquidityFromAmounts"
  /\ out' = [ok |-> TRUE,
             liquidity |-> estimateLiquidityFromAmounts(in.currentSqrtPriceX64,
                                                        in.tickLower, in.tickUpper,
                                                        in.amountA, in.amountB)]
  /\ pc' = "done"
  /\ UNCHANGED in

NextLiquidity == CallGetLiquidityFromAmounts \/ CallEstimateLiquidityFromAmounts

SpecLiquidity == InitLiquidity /\ [][NextLiquidity]_vars

(* C18: getLiquidityFromAmounts never returns a negative liquidity: for     *)
(* every range, price and pair of amounts, its result is >= 0.              *)
C18_NeverNegative ==
  (pc = "done" /\ in.fn = "getLiquidityFromAmounts") => FGe(out.liquidity, F0)

(* C19: for a price inside the range, the liquidity returned is the minimum *)
(* of the liquidity implied by amount A alone and the liquidity implied by  *)
(* amount B alone, in getLiquidityFromAmounts (x = L * (1/sqrtP - 1/sqrtPb), *)
(* y = L * (sqrtP - sqrtPa)) and in estimateLiquidityFromAmounts (the same   *)
(* at the scale 2^64, each quotient truncated).                              *)
C19_InRange ==
  /\ pc = "done"
  /\ \/ /\ in.fn = "getLiquidityFromAmounts"
        /\ FLt(in.sqrtPriceLower, in.sqrtPrice)
        /\ FLt(in.sqrtPrice, in.sqrtPriceUpper)
     \/ /\ in.fn = "estimateLiquidityFromAmounts"
        /\ BLt(tickToSqrtPriceX64(in.tickLower), in.currentSqrtPriceX64)
        /\ BLt(in.currentSqrtPriceX64, tickToSqrtPriceX64(in.tickUpper))

C19_ImpliedByA ==
  IF in.fn = "getLiquidityFromAmounts"
  THEN FDiv(in.amount0, FSub(FDiv(F1, in.sqrtPrice), FDiv(F1, in.sqrtPriceUpper)))
  ELSE BShr(BDiv(BMul(in.amountA,
                      BMul(in.currentSqrtPriceX64, tickToSqrtPriceX64(in.tickUpper))),
                 BSub(tickToSqrtPriceX64(in.tickUpper), in.currentSqrtPriceX64)), 64)

C19_ImpliedByB ==
  IF in.fn = "getLiquidityFromAmounts"
  THEN FDiv(in.amount1, FSub(in.sqrtPrice, in.sqrtPriceLower))
  ELSE BDiv(BShl(in.amountB, 64),
            BSub(in.currentSqrtPriceX64, tickToSqrtPriceX64(in.tickLower)))

C19_IsMinimum(liquidity, a, b) ==
  IF in.fn = "getLiquidityFromAmounts"
  THEN (FLe(a, b) /\ liquidity = a) \/ (FLe(b, a) /\ liquidity = b)
  ELSE (BLe(a, b) /\ liquidity = a) \/ (BLe(b, a) /\ liquidity = b)

C19_MinimumInRange ==
  C19_InRange => C19_IsMinimum(out.liquidity, C19_ImpliedByA, C19_ImpliedByB)

\* ... reached in both implementations with amount B the binding one, and
\* with amount A the binding one.
C19_BindingB ==
  /\ C19_InRange
  /\ out.liquidity = C19_ImpliedByB /\ out.liquidity # C19_ImpliedByA

C19_Witness == C19_BindingB /\ in.fn = "estimateLiquidityFromAmounts"

----------------------------------------------------------------------------
(* One position handed to the three implementations of the amounts of a     *)
(* position: the price at a tick below, in or above the range of ticks,     *)
(* and a liquidity in thousands. The floating-point functions are handed    *)
(* the numbers nearest to the same square-root prices.                      *)
MaxTokenLiquidity == 3

TokenTicks == {-2000, -1000, -500, 0, 500, 1000, 3000}
TokenRanges == {<<-1000, 500>>, <<-1000, 1000>>, <<-500, 1000>>, <<0, 1000>>}

\* sqrtPriceX64 / 2^64 as a number
sqrtPriceOfX64(sqrtPriceX64) == FRound(1, sqrtPriceX64, -64, FALSE)

TokenInputs ==
  { [sqrtPriceX64 |-> c, tickLower |-> r[1], tickUpper |-> r[2], liquidity |-> n] :
       c \in { tickToSqrtPriceX64(t) : t \in TokenTicks },
       r \in TokenRanges,
       n \in { 1000 * k : k \in 1..MaxTokenLiquidity } }

InitTokens ==
  /\ pc = "call"
  /\ in \in TokenInputs
  /\ out = [fixed |-> NoResult, floating |-> NoResult, types |-> NoResult]

TokensDone(o) ==
  IF o.fixed # NoResult /\ o.floating # NoResult /\ o.types # NoResult
  THEN "done" ELSE "call"

CallGetCoinAmountsFromLiquidity ==
  /\ pc = "call"
  /\ out.fixed = NoResult
  /\ out' = [out EXCEPT !.fixed =
               getCoinAmountsFromLiquidity(BFromNat(in.liquidity), in.sqrtPriceX64,
                                           in.tickLower, in.tickUpper)]
  /\ pc' = TokensDone(out')
  /\ UNCHANGED in

CallGetAmountsForLiquidity ==
  /\ pc = "call"
  /\ out.floating = NoResult
  /\ out' = [out EXCEPT !.floating =
               getAmountsForLiquidity(sqrtPriceOfX64(in.sqrtPriceX64),
                                      sqrtPriceOfX64(tickToSqrtPriceX64(in.tickLower)),
                                      sqrtPriceOfX64(tickToSqrtPriceX64(in.tickUpper)),
                                      FFromInt(in.liquidity))]
  /\ pc' = TokensDone(out')
  /\ UNCHANGED in

CallTypesGetAmountsForLiquidity ==
  /\ pc = "call"
  /\ out.types = NoResult
  /\ out' = [out EXCEPT !.types =
               types_getAmountsForLiquidity(sqrtPriceOfX64(in.sqrtPriceX64),
                                            sqrtPriceOfX64(tickToSqrtPriceX64(in.tickLower)),
                                            sqrtPriceOfX64(tickToSqrtPriceX64(in.tickUpper)),
                                            FFromInt(in.liquidity))]
  /\ pc' = TokensDone(out')
  /\ UNCHANGED in

NextTokens ==
  \/ CallGetCoinAmountsFromLiquidity
  \/ CallGetAmountsForLiquidity
  \/ CallTypesGetAmountsForLiquidity

SpecTokens == InitTokens /\ [][NextTokens]_vars

C21_OutOfRange ==
  /\ pc = "done"
  /\ \/ BLe(in.sqrtPriceX64, tickToSqrtPriceX64(in.tickLower))
     \/ BLe(tickToSqrtPriceX64(in.tickUpper), in.sqrtPriceX64)

\* The tokens holding something: A is token X (amount0), B is token Y (amount1).
C21_TokensOfFixed(amounts) ==
  <<~BIsZero(amounts.amountA), ~BIsZero(amounts.amountB)>>

C21_TokensOfFloating(amounts) ==
  <<FGt(amounts.amount0, F0), FGt(amounts.amount1, F0)>>

(* C21: below the range, and above it, the fixed-point                      *)
(* getCoinAmountsFromLiquidity and both copies of the floating-point        *)
(* getAmountsForLiquidity put the whole position in the same token.         *)
C21_OneTokenConvention ==
  C21_OutOfRange =>
    /\ C21_TokensOfFloating(out.floating) = C21_TokensOfFixed(out.fixed)
    /\ C21_TokensOfFloating(out.types) = C21_TokensOfFixed(out.fixed)

----------------------------------------------------------------------------
(* sqrtPriceX64ToTick applied to tickToSqrtPriceX64 of a tick: the powers   *)
(* of two up to 2^MaxFloorTickBit, their predecessors and the negatives of  *)
(* both, within the ticks the factors of tickToSqrtPriceX64 cover.          *)
MaxFloorTickBit == 18

FloorTicks ==
  { t \in UNION { {Pow2(i), Pow2(i) - 1, -Pow2(i), 1 - Pow2(i)} :
                    i \in 0..MaxFloorTickBit } : Abs(t) < Pow2(19) }

InitFloor == pc = "call" /\ in \in { [tick |-> t] : t \in FloorTicks } /\ out = NoResult

CallSqrtPriceX64ToTick ==
  /\ pc = "call"
  /\ out' \in sqrtPriceX64ToTick(tickToSqrtPriceX64(in.tick))
  /\ pc' = "done"
  /\ UNCHANGED in

SpecFloor == InitFloor /\ [][CallSqrtPriceX64ToTick]_vars

(* C22: for every tick t, sqrtPriceX64ToTick(tickToSqrtPriceX64(t)) returns *)
(* t, without raising an error.                                             *)
C22_FloorOfTickPrice ==
  pc = "done" => out.ok /\ out.tick = FFromInt(in.tick)

----------------------------------------------------------------------------
(* generateILCurve for the range [0.9, 1.1], a deposit of 0.5 and 0.5, a     *)
(* current price in halves, and grids from 50 * a percent to 50 * b percent  *)
(* in 1..MaxGridSteps steps.                                                 *)
MaxGridSteps == 3
MaxGridLoss == 4
MaxGridGain == 3
MaxCurvePrice == 3

CurveInputs ==
  { [currentPrice |-> p, priceLower |-> Tenth(9), priceUpper |-> Tenth(11),
     amountA |-> Half(1), amountB |-> Half(1),
     min |-> FFromInt(50 * g[1]), max |-> FFromInt(50 * g[2]), steps |-> n] :
       p \in { Half(k) : k \in 2..MaxCurvePrice },
       g \in { g \in ((-MaxGridLoss)..MaxGridGain) \X ((-MaxGridLoss)..MaxGridGain) :
                 g[1] < g[2] },
       n \in 1..MaxGridSteps }

InitCurve == pc = "call" /\ in \in CurveInputs /\ out = NoResult

CallGenerateILCurve ==
  /\ pc = "call"
  /\ out' = [ok |-> TRUE, curve |-> generateILCurve(in)]
  /\ pc' = "done"
  /\ UNCHANGED in

SpecCurve == InitCurve /\ [][CallGenerateILCurve]_vars

\* min + i * (max - min) / steps, the product taken first
C23_GridPercent(i) ==
  FAdd(in.min, FDiv(FMul(FFromInt(i), FSub(in.max, in.min)), FFromInt(in.steps)))

C23_IsGridPercent(x, i) ==
  FLe(FAbs(FSub(x, C23_GridPercent(i))), FMul(FSub(in.max, in.min), FPow2(-50)))

C23_TargetPrice(x) == FMul(in.currentPrice, FAdd(F1, FDiv(x, F100)))

C23_Grid(curve) ==
  /\ Len(curve) <= in.steps + 1
  /\ \A j \in 1..(Len(curve) - 1) : FLt(curve[j].priceChange, curve[j + 1].priceChange)
  /\ \A j \in 1..Len(curve) :
       /\ \E i \in 0..in.steps : C23_IsGridPercent(curve[j].priceChange, i)
       /\ curve[j].targetPrice = C23_TargetPrice(curve[j].priceChange)
       /\ FGt(curve[j].targetPrice, F0)
  /\ \A i \in 0..in.steps :
       FLe(C23_TargetPrice(C23_GridPercent(i)), F0) =>
         \A j \in 1..Len(curve) : ~C23_IsGridPercent(curve[j].priceChange, i)

(* C23: for min < max and steps >= 1, generateILCurve returns at most       *)
(* steps + 1 points, in strictly increasing priceChange, each priceChange   *)
(* being a grid percentage min + i * (max - min) / steps; every point has   *)
(* targetPrice = currentPrice * (1 + priceChange / 100) > 0, and no point   *)
(* is returned for a grid percentage whose target price is <= 0.            *)
C23_GridOfPositiveTargets == pc = "done" => C23_Grid(out.curve)

\* ... reached with grid points skipped and more than one point returned.
C23_Witness ==
  /\ pc = "done"
  /\ Len(out.curve) >= 2
  /\ Len(out.curve) < in.steps + 1
  /\ \E i \in 0..in.steps : C23_TargetPrice(C23_GridPercent(i)) = F0

----------------------------------------------------------------------------
(* The closed form and calculateCLMM_IL on one position: a range            *)
(* [2^-w, 2^w], whose geometric centre 1 is the entry price, the deposit    *)
(* that getAmountsForLiquidity gives at the entry price for a liquidity L,  *)
(* and a target price in tenths inside the range.                           *)
MaxCentreWidth == 2
MaxCentreTenths == 20
MaxCentreLiquidity == 2

CentreInputs ==
  { [entryPrice |-> F1, targetPrice |-> t, priceLower |-> r[1], priceUpper |-> r[2],
     liquidity |-> x] :
       t \in { Tenth(k) : k \in 1..MaxCentreTenths },
       r \in { <<FPow2(-w), FPow2(w)>> : w \in 1..MaxCentreWidth },
       x \in { FFromInt(k) : k \in 1..MaxCentreLiquidity } }

InitCentre ==
  /\ pc = "call"
  /\ in \in { i \in CentreInputs : FLt(i.priceLower, i.targetPrice)
                                     /\ FLt(i.targetPrice, i.priceUpper) }
  /\ out = [analytical |-> NoResult, result |-> NoResult]

CentreDone(o) ==
  IF o.analytical # NoResult /\ o.result # NoResult THEN "done" ELSE "call"

CallCalculateCLMM_IL_Analytical ==
  /\ pc = "call"
  /\ out.analytical = NoResult
  /\ out' = [out EXCEPT !.analytical =
               calculateCLMM_IL_Analytical(FDiv(in.targetPrice, in.entryPrice),
                                           in.priceLower, in.priceUpper)]
  /\ pc' = CentreDone(out')
  /\ UNCHANGED in

CalculateCLMM_ILOfDeposit(deposit) ==
  calculateCLMM_IL(in.entryPrice, in.targetPrice, in.priceLower, in.priceUpper,
                   deposit.amount0, deposit.amount1)

CallCalculateCLMM_IL ==
  /\ pc = "call"
  /\ out.result = NoResult
  /\ out' = [out EXCEPT !.result =
               CalculateCLMM_ILOfDeposit(
                 getAmountsForLiquidity(FSqrt(in.entryPrice), FSqrt(in.priceLower),
                                        FSqrt(in.priceUpper), in.liquidity))]
  /\ pc' = CentreDone(out')
  /\ UNCHANGED in

NextCentre == CallCalculateCLMM_IL_Analytical \/ CallCalculateCLMM_IL

SpecCentre == InitCentre /\ [][NextCentre]_vars

\* Of one sign, and within a tenth of the larger of the two.
C24_Agree(a, b) ==
  /\ ~(FLt(a, F0) /\ FGt(b, F0))
  /\ ~(FGt(a, F0) /\ FLt(b, F0))
  /\ FLe(FAbs(FSub(a, b)),
         FAdd(FMul(FMax(FAbs(a), FAbs(b)), Tenth(1)), FDec(1, 1000000000)))

(* C24: for an entry price at the geometric centre of the range, a deposit  *)
(* on the liquidity curve and a target price inside the range,              *)
(* calculateCLMM_IL_Analytical(target / entry, priceLower, priceUpper) has  *)
(* the sign of the ilPercentage of calculateCLMM_IL and is approximately    *)
(* equal to it (here: within a tenth of the larger one).                    *)
C24_ClosedFormAgrees ==
  pc = "done" => out.result.ok /\ C24_Agree(out.analytical, out.result.ilPercentage)

----------------------------------------------------------------------------
(* runSimulation called twice on the same amounts, prices and ticks, with   *)
(* two choices of decimalsA and decimalsB. The amounts are powers of ten    *)
(* of token A beside 100 or none of token B, priceB is 1, and the fee       *)
(* rate, the volume and the total liquidity are those App hands over.       *)
MaxAmountDigits == 7
MaxSimulationPrice == 2

SimulationDecimals == {<<6, 6>>, <<9, 9>>, <<9, 6>>}
SimulationTicks == {<<-2000, 2000>>, <<-1000, 500>>}

SimulationInputs ==
  { [amountAInput |-> a, amountBInput |-> b, currentPriceA |-> p, priceB |-> F1,
     tickLower |-> t[1], tickUpper |-> t[2],
     decimals |-> d[1], otherDecimals |-> d[2],
     feeRate |-> r, volume24h |-> F0, totalLiquidityUSD |-> F0] :
       a \in { FFromInt(10 ^ k) : k \in {2, MaxAmountDigits} },
       b \in { FFromInt(100 * k) : k \in 0..1 },
       p \in { FFromInt(k) : k \in 1..MaxSimulationPrice },
       t \in SimulationTicks,
       d \in { d \in SimulationDecimals \X SimulationDecimals : d[1] # d[2] },
       r \in { FDec(3, 1000) } }

InitSimulation ==
  /\ pc = "call"
  /\ in \in SimulationInputs
  /\ out = [first |-> NoResult, second |-> NoResult]

SimulationArguments(decimals) ==
  [amountAInput |-> in.amountAInput, amountBInput |-> in.amountBInput,
   currentPriceA |-> in.currentPriceA, priceB |-> in.priceB,
   tickLower |-> in.tickLower, tickUpper |-> in.tickUpper,
   decimalsA |-> decimals[1], decimalsB |-> decimals[2],
   feeRate |-> in.feeRate, volume24h |-> in.volume24h,
   totalLiquidityUSD |-> in.totalLiquidityUSD]

CallRunSimulation ==
  /\ pc = "call"
  /\ \E r \in runSimulation(SimulationArguments(in.decimals)) :
       out' = [out EXCEPT !.first = r]
  /\ pc' = "again"
  /\ UNCHANGED in

CallRunSimulationAgain ==
  /\ pc = "again"
  /\ \E r \in runSimulation(SimulationArguments(in.otherDecimals)) :
       out' = [out EXCEPT !.second = r]
  /\ pc' = "done"
  /\ UNCHANGED in

NextSimulation == CallRunSimulation \/ CallRunSimulationAgain

SpecSimulation == InitSimulation /\ [][NextSimulation]_vars

\* The regime the position is placed in.
C25_Regime(currentSqrtPriceX64) ==
  IF BLe(currentSqrtPriceX64, tickToSqrtPriceX64(in.tickLower)) THEN "below"
  ELSE IF BLe(tickToSqrtPriceX64(in.tickUpper), currentSqrtPriceX64) THEN "above"
  ELSE "in"

\* Percentages within a hundredth of a percentage point of each other.
C25_SameLoss(x, y) == FLe(FAbs(FSub(x, y)), FDec(1, 100))

C25_SameLosses(a, b) ==
  /\ Len(a) = Len(b)
  /\ \A i \in 1..Len(a) : C25_SameLoss(a[i].impermanentLoss, b[i].impermanentLoss)

(* C25: for the same amounts in token units, prices and ticks, two calls of *)
(* runSimulation with different decimalsA and decimalsB place the position  *)
(* in the same regime and return the same impermanentLoss percentages in    *)
(* ilByPriceChange (here: within a hundredth of a percentage point).        *)
C25_DecimalsAgnostic ==
  pc = "done" /\ out.first.ok /\ out.second.ok =>
    /\ C25_Regime(out.first.currentSqrtPriceX64)
         = C25_Regime(out.second.currentSqrtPriceX64)
    /\ C25_SameLosses(out.first.ilByPriceChange, out.second.ilByPriceChange)

(* C30: runSimulation returns a result, raising nothing, for every input    *)
(* with a positive amount, positive prices and tickLower < tickUpper.       *)
C30_NeverRaises ==
  /\ pc \in {"again", "done"} => out.first.ok
  /\ pc = "done" => out.second.ok

----------------------------------------------------------------------------
(* C27: for a range priceLower < priceUpper, an entry price inside it, a    *)
(* deposit of positive liquidity and a positive target price, inside,       *)
(* below or above the range or on a boundary of it, calculateCLMM_IL        *)
(* returns valuePool <= valueHold and ilPercentage <= 0.                    *)
C27_Position ==
  /\ pc = "done"
  /\ FLt(in.priceLower, in.entryPrice)
  /\ FLt(in.entryPrice, in.priceUpper)
  /\ FGt(C16_Liquidity, F0) /\ FIsFinite(C16_Liquidity)

C27_NeverOutperformsHolding ==
  C27_Position =>
    /\ out.ok
    /\ FLe(out.valuePool, out.valueHold)
    /\ FLe(out.ilPercentage, F0)

----------------------------------------------------------------------------
(* A deposit turned into a liquidity by estimateLiquidityFromAmounts and    *)
(* the liquidity turned back into amounts by getCoinAmountsFromLiquidity,   *)
(* at a price inside the range: the price of a tick, or a price between     *)
(* two ticks; the amounts are powers of a thousand.                         *)
MaxDepositExp == 3
MaxDepositOffset == 1

DepositTicks == {-999, -500, -1, 1, 500, 999, 1500}

DepositInputs ==
  { [currentSqrtPriceX64 |-> c, tickLower |-> l, tickUpper |-> u,
     amountA |-> a, amountB |-> b] :
       c \in { BAdd(tickToSqrtPriceX64(t), BFromNat(12345 * k)) :
                 t \in DepositTicks, k \in 0..MaxDepositOffset },
       l \in {-1000, 0}, u \in {1000, 2000},
       a \in { Thousands(k) : k \in 0..MaxDepositExp },
       b \in { Thousands(k) : k \in 0..MaxDepositExp } }

InitDeposit ==
  /\ pc = "call"
  /\ in \in { i \in DepositInputs :
                /\ BLt(tickToSqrtPriceX64(i.tickLower), i.currentSqrtPriceX64)
                /\ BLt(i.currentSqrtPriceX64, tickToSqrtPriceX64(i.tickUpper)) }
  /\ out = NoResult

CallEstimateLiquidity ==
  /\ pc = "call"
  /\ out' = [ok |-> TRUE,
             liquidity |-> estimateLiquidityFromAmounts(in.currentSqrtPriceX64,
                                                        in.tickLower, in.tickUpper,
                                                        in.amountA, in.amountB)]
  /\ pc' = "estimated"
  /\ UNCHANGED in

CoinAmountsOf(liquidity, amounts) ==
  [ok |-> TRUE, liquidity |-> liquidity,
   amountA |-> amounts.amountA, amountB |-> amounts.amountB]

CallGetCoinAmounts ==
  /\ pc = "estimated"
  /\ out' = CoinAmountsOf(out.liquidity,
                          getCoinAmountsFromLiquidity(out.liquidity,
                                                      in.currentSqrtPriceX64,
                                                      in.tickLower, in.tickUpper))
  /\ pc' = "done"
  /\ UNCHANGED in

NextDeposit == CallEstimateLiquidity \/ CallGetCoinAmounts

SpecDeposit == InitDeposit /\ [][NextDeposit]_vars

(* C29: for a current price inside the range and amounts a, b >= 0, the     *)
(* amounts getCoinAmountsFromLiquidity returns for the liquidity            *)
(* estimateLiquidityFromAmounts(p, tickLower, tickUpper, a, b) are not      *)
(* above the deposit: amountA <= a and amountB <= b.                        *)
C29_WithinDeposit ==
  pc = "done" => BLe(out.amountA, in.amountA) /\ BLe(out.amountB, in.amountB)

\* ... reached with a positive liquidity that leaves a part of token B out.
C29_Witness ==
  /\ pc = "done"
  /\ ~BIsZero(out.liquidity)
  /\ ~BIsZero(out.amountA) /\ ~BIsZero(out.amountB)
  /\ BLt(out.amountB, in.amountB)

----------------------------------------------------------------------------
(* services/cetusSdk.ts: the loading of the pools. The code runs on one     *)
(* thread, so a step is what runs between two awaits. pc holds the place    *)
(* of each call in flight, out the variables of the module and the locals   *)
(* of loadAllPoolsInBackground, in the answers of the services: of the      *)
(* Cetus API, of getAssignPools, and the pages of getPoolsWithPage. Pools   *)
(* are their ids, poolsCache is the set of its pools.                       *)
MaxListedPages == 11
maxPages == 10

CACHED_POPULAR_POOLS == {0}
ApiPools == {0, 100}
AssignPools == {0, 101}

\* The pools of the n-th page of the listing; pool 0 is listed as well.
PageOfPools(n) == IF n = 1 THEN {0, 1} ELSE {n}

PoolsInputs ==
  { [api |-> a, assign |-> g, pages |-> n, pageError |-> e] :
       a \in {"pools", "failed", "none"},
       g \in {"pools", "none", "error"},
       n \in {1, 2, MaxListedPages},
       e \in {0, 2} }

InitPools ==
  /\ pc = [selector |-> "mount", fetcher |-> "idle", real |-> "idle",
           load |-> "idle", refresh |-> "idle"]
  /\ in \in PoolsInputs
  /\ out = [poolsCache |-> {}, apiPoolsCache |-> {},
            isLoadingAllPools |-> FALSE, allPoolsLoaded |-> FALSE,
            additionalPools |-> {}, pageCount |-> 0,
            listed |-> {}, resolved |-> NoResult]

\* fetchPoolsFromApi called and not awaited: it fills apiPoolsCache later.
RefreshStarted(p) == IF p.refresh = "idle" THEN [p EXCEPT !.refresh = "api"] ELSE p

\* fetchRealPoolsInBackground up to its await.
RealStarted(p, o) == IF o.isLoadingAllPools THEN p ELSE [p EXCEPT !.real = "assign"]

RealLoading(o) == [o EXCEPT !.isLoadingAllPools = TRUE]

\* poolsCache = [...CACHED_POPULAR_POOLS] when it is empty
PopularCached(o) ==
  IF o.poolsCache = {} THEN [o EXCEPT !.poolsCache = CACHED_POPULAR_POOLS] ELSE o

\* fetchPopularPoolsFast up to its await, called by the load effect of
\* PoolSelector; stale says whether the API cache is older than 2 minutes.
CallFetchPopularPoolsFast ==
  /\ pc.selector = "mount"
  /\ IF out.apiPoolsCache # {}
     THEN /\ \E stale \in BOOLEAN :
               pc' = [(IF stale THEN RefreshStarted(pc) ELSE pc)
                        EXCEPT !.selector = "popular"]
          /\ out' = out
     ELSE /\ pc' = [pc EXCEPT !.selector = "fast_api"]
          /\ out' = PopularCached(out)
  /\ UNCHANGED in

\* What follows await fetchPoolsFromApi in fetchPopularPoolsFast and in
\* fetchPools: the pools of the API are returned, or the update by the SDK
\* is started and poolsCache returned.
ApiAnswered(who, next) ==
  /\ IF in.api = "pools"
     THEN /\ out' = [out EXCEPT !.apiPoolsCache = ApiPools]
          /\ pc' = [pc EXCEPT ![who] = next]
     ELSE IF in.api = "failed"
     THEN /\ out' = out
          /\ pc' = [pc EXCEPT ![who] = next]
     ELSE /\ out' = RealLoading(out)
          /\ pc' = [RealStarted(pc, out) EXCEPT ![who] = next]
  /\ UNCHANGED in

FetchPopularPoolsFastResumes ==
  /\ pc.selector = "fast_api"
  /\ ApiAnswered("selector", "popular")

\* fetchRealPoolsInBackground after getAssignPools.
FetchRealPoolsInBackgroundResumes ==
  /\ pc.real = "assign"
  /\ out' = [out EXCEPT
               !.poolsCache = IF in.assign = "pools" THEN AssignPools \cup @ ELSE @,
               !.isLoadingAllPools = FALSE,
               !.allPoolsLoaded = TRUE]
  /\ pc' = [pc EXCEPT !.real = "idle"]
  /\ UNCHANGED in

\* The load effect after fetchPopularPoolsFast: loadAllPoolsInBackground is
\* called and runs up to its first await, or returns.
CallLoadAllPoolsInBackground ==
  /\ pc.selector = "popular"
  /\ IF out.isLoadingAllPools
     THEN /\ pc' = [pc EXCEPT !.selector = "end", !.load = "waiting"]
          /\ out' = out
     ELSE IF out.allPoolsLoaded
     THEN /\ pc' = [pc EXCEPT !.selector = "end", !.load = "resolved"]
          /\ out' = [out EXCEPT !.resolved = [ok |-> TRUE, value |-> out.poolsCache]]
     ELSE /\ pc' = [pc EXCEPT !.selector = "end", !.load = "page"]
          /\ out' = [out EXCEPT !.isLoadingAllPools = TRUE,
                                !.additionalPools = {}, !.pageCount = 0]
  /\ UNCHANGED in

\* The loop that waits for the load in flight, once that load has ended.
LoadAllPoolsInBackgroundWaited ==
  /\ pc.load = "waiting"
  /\ ~out.isLoadingAllPools
  /\ out' = [out EXCEPT !.resolved = [ok |-> TRUE, value |-> out.poolsCache]]
  /\ pc' = [pc EXCEPT !.load = "resolved"]
  /\ UNCHANGED in

\* After the loop over the pages: the merge, the flags and the return.
PoolsMerged(o) ==
  [o EXCEPT !.poolsCache = @ \cup o.additionalPools,
            !.allPoolsLoaded = TRUE,
            !.isLoadingAllPools = FALSE,
            !.resolved = [ok |-> TRUE, value |-> o.poolsCache \cup o.additionalPools]]

\* One answer of getPoolsWithPage: a page, or an error that ends the loop.
LoadAllPoolsInBackgroundPage ==
  /\ pc.load = "page"
  /\ IF in.pageError = out.pageCount + 1
     THEN /\ out' = PoolsMerged(out)
          /\ pc' = [pc EXCEPT !.load = "resolved"]
     ELSE IF out.pageCount + 1 < in.pages /\ out.pageCount + 1 < maxPages
     THEN /\ out' = [out EXCEPT
                       !.additionalPools =
                         @ \cup (PageOfPools(out.pageCount + 1) \ out.poolsCache),
                       !.listed = @ \cup PageOfPools(out.pageCount + 1),
                       !.pageCount = @ + 1]
          /\ pc' = pc
     ELSE /\ out' = PoolsMerged([out EXCEPT
                       !.additionalPools =
                         @ \cup (PageOfPools(out.pageCount + 1) \ out.poolsCache),
                       !.listed = @ \cup PageOfPools(out.pageCount + 1),
                       !.pageCount = @ + 1])
          /\ pc' = [pc EXCEPT !.load = "resolved"]
  /\ UNCHANGED in

\* fetchPools up to its await, called at any time.
CallFetchPools ==
  /\ pc.fetcher = "idle"
  /\ IF out.apiPoolsCache # {}
     THEN /\ \E stale \in BOOLEAN :
               pc' = [(IF stale THEN RefreshStarted(pc) ELSE pc)
                        EXCEPT !.fetcher = "end"]
          /\ out' = out
     ELSE IF out.poolsCache # {}
     THEN /\ pc' = [RefreshStarted(pc) EXCEPT !.fetcher = "end"]
          /\ out' = out
     ELSE /\ pc' = [pc EXCEPT !.fetcher = "fetch_api"]
          /\ out' = [out EXCEPT !.poolsCache = CACHED_POPULAR_POOLS]
  /\ UNCHANGED in

FetchPoolsResumes ==
  /\ pc.fetcher = "fetch_api"
  /\ ApiAnswered("fetcher", "end")

\* fetchPoolsFromApi, not awaited, after the answer of the API.
FetchPoolsFromApiResumes ==
  /\ pc.refresh = "api"
  /\ out' = IF in.api = "pools" THEN [out EXCEPT !.apiPoolsCache = ApiPools] ELSE out
  /\ pc' = [pc EXCEPT !.refresh = "idle"]
  /\ UNCHANGED in

NextPools ==
  \/ CallFetchPopularPoolsFast
  \/ FetchPopularPoolsFastResumes
  \/ FetchRealPoolsInBackgroundResumes
  \/ CallLoadAllPoolsInBackground
  \/ LoadAllPoolsInBackgroundWaited
  \/ LoadAllPoolsInBackgroundPage
  \/ CallFetchPools
  \/ FetchPoolsResumes
  \/ FetchPoolsFromApiResumes

SpecPools == InitPools /\ [][NextPools]_vars

\* The pools of the listing: those of the first maxPages pages.
C26_ListedPools ==
  UNION { PageOfPools(n) : n \in 1..(IF in.pages < maxPages THEN in.pages ELSE maxPages) }

C26_ListingMerged ==
  /\ out.listed = C26_ListedPools
  /\ C26_ListedPools \subseteq out.poolsCache

(* C26: whenever a call of loadAllPoolsInBackground has resolved, and       *)
(* whenever allPoolsLoaded is true, the listing by getPoolsWithPage has     *)
(* been run, up to 10 pages, and its pools are in poolsCache (and in what   *)
(* the call returned).                                                      *)
C26_AllPoolsWhenComplete ==
  /\ out.allPoolsLoaded => C26_ListingMerged
  /\ pc.load = "resolved" =>
       C26_ListingMerged /\ C26_ListedPools \subseteq out.resolved.value

----------------------------------------------------------------------------
(* App.tsx: the selection of a pool and the simulation. out holds the state *)
(* of the component, pc the callbacks setTimeout has pending, oldest first, *)
(* each with the values its handleSimulate was made with, in the amounts    *)
(* and, computed once for each callback handleSimulate can make, what the   *)
(* callback sets. A handler runs on the state of the last render.           *)
MaxPendingTimers == 2

PoolInfoOf(id, price, spacing, decimalsA, decimalsB, rate) ==
  [poolId |-> id, currentPrice |-> price, tickSpacing |-> spacing,
   coinDecimalsA |-> decimalsA, coinDecimalsB |-> decimalsB, feeRate |-> rate]

AppPools ==
  { PoolInfoOf(1, F1, 60, 9, 6, FDec(3, 1000)),
    PoolInfoOf(2, F2, 200, 9, 9, FDec(25, 10000)),
    PoolInfoOf(3, F1, 1, 6, 6, FDec(1, 10000)) }

AppAmounts == { [amountA |-> F100, amountB |-> F100] }

null == [poolId |-> 0]

\* The range handlePoolSelect sets for the tick of the price of the pool.
tickLowerOf(pool, currentTick) ==
  FToInt(alignTickToSpacing(FSub(currentTick, FFromInt(2000)),
                            FFromInt(pool.tickSpacing), FALSE))

tickUpperOf(pool, currentTick) ==
  FToInt(alignTickToSpacing(FAdd(currentTick, FFromInt(2000)),
                            FFromInt(pool.tickSpacing), TRUE))

PoolSelected(pool, currentTick) ==
  [out EXCEPT
     !.selectedPool = pool,
     !.tickLower = tickLowerOf(pool, currentTick),
     !.tickUpper = tickUpperOf(pool, currentTick),
     !.result = null,
     !.clmmILData = <<>>]

handlePoolSelect ==
  /\ \E pool \in AppPools :
       IF FGt(pool.currentPrice, F0)
       THEN \E currentTick \in priceToTick(pool.currentPrice) :
              out' = PoolSelected(pool, currentTick)
       ELSE out' = [out EXCEPT !.selectedPool = pool, !.result = null,
                               !.clmmILData = <<>>]
  /\ UNCHANGED <<pc, in>>

\* handleSimulate: the callback is left to setTimeout with the values of
\* this render.
handleSimulate ==
  /\ out.selectedPool # null
  /\ Len(pc) < MaxPendingTimers
  /\ pc' = Append(pc, [selectedPool |-> out.selectedPool,
                       tickLower |-> out.tickLower, tickUpper |-> out.tickUpper])
  /\ out' = [out EXCEPT !.isSimulating = TRUE]
  /\ UNCHANGED in

\* The arguments of runSimulation in the callback c.
AppSimulationArguments(c, amounts) ==
  [amountAInput |-> amounts.amountA, amountBInput |-> amounts.amountB,
   currentPriceA |-> c.selectedPool.currentPrice, priceB |-> F1,
   tickLower |-> c.tickLower, tickUpper |-> c.tickUpper,
   decimalsA |-> c.selectedPool.coinDecimalsA,
   decimalsB |-> c.selectedPool.coinDecimalsB,
   feeRate |-> c.selectedPool.feeRate, volume24h |-> F0,
   totalLiquidityUSD |-> F0]

\* The arguments of generateCLMMILCurve in the callback c.
AppCurveArguments(c, amounts, priceLower, priceUpper) ==
  [currentPrice |-> c.selectedPool.currentPrice,
   priceLower |-> priceLower, priceUpper |-> priceUpper,
   amountA |-> amounts.amountA, amountB |-> amounts.amountB,
   min |-> FFromInt(-80), max |-> FFromInt(200), steps |-> 40]

\* What the callback c hands to setResult and setCLMMILData, the range
\* [priceLower, priceUpper] and the simulation given, or that it sets
\* neither; pool tells which pool the result was computed of.
Simulated(c, amounts, priceLower, priceUpper, simulationResult) ==
  IF FGe(priceLower, priceUpper) \/ FLe(priceLower, F0) \/ FLe(priceUpper, F0)
  THEN [set |-> FALSE]
  ELSE IF ~simulationResult.ok
  THEN [set |-> FALSE]
  ELSE [set |-> TRUE,
        result |-> [pool |-> c.selectedPool.poolId, simulation |-> simulationResult],
        clmmILData |-> <<[pool |-> c.selectedPool.poolId,
                          curve |-> generateILCurve(
                                      AppCurveArguments(c, amounts, priceLower,
                                                        priceUpper))]>>]

SimulatedBy(c, amounts) ==
  { Simulated(c, amounts, priceLower, priceUpper, simulationResult) :
      priceLower \in tickToPrice(c.tickLower),
      priceUpper \in tickToPrice(c.tickUpper),
      simulationResult \in runSimulation(AppSimulationArguments(c, amounts)) }

\* The callbacks handleSimulate can make, and what each of them sets,
\* computed once.
AppCallbacks ==
  UNION { { [selectedPool |-> pool,
             tickLower |-> tickLowerOf(pool, currentTick),
             tickUpper |-> tickUpperOf(pool, currentTick)] :
              currentTick \in priceToTick(pool.currentPrice) } : pool \in AppPools }

AppInput(amounts) ==
  [amountA |-> amounts.amountA, amountB |-> amounts.amountB,
   simulated |-> [c \in AppCallbacks |-> SimulatedBy(c, amounts)]]

InitApp ==
  /\ pc = <<>>
  /\ in \in { AppInput(amounts) : amounts \in AppAmounts }
  /\ out = [selectedPool |-> null, tickLower |-> -2000, tickUpper |-> 2000,
            result |-> null, clmmILData |-> <<>>, isSimulating |-> FALSE]

\* The callback of setTimeout, 500 ms after its handleSimulate.
TimerCallback ==
  /\ pc # <<>>
  /\ \E s \in in.simulated[Head(pc)] :
       out' = IF s.set
              THEN [out EXCEPT !.result = s.result, !.clmmILData = s.clmmILData,
                               !.isSimulating = FALSE]
              ELSE [out EXCEPT !.isSimulating = FALSE]
  /\ pc' = Tail(pc)
  /\ UNCHANGED in

NextApp == handlePoolSelect \/ handleSimulate \/ TimerCallback

SpecApp == InitApp /\ [][NextApp]_vars

(* C28: whenever result is not null, and whenever clmmILData is not empty,  *)
(* it was computed of the pool that is selected.                            *)
C28_ResultOfSelectedPool ==
  /\ out.result # null => out.result.pool = out.selectedPool.poolId
  /\ out.clmmILData # <<>> => out.clmmILData[1].pool = out.selectedPool.poolId

====
